---- MODULE Spec2Model ----
(***************************************************************************)
(* A model of the proof stack of webdott/zk: multilinear and univariate   *)
(* polynomials over a prime field, the Fiat-Shamir transcript, the        *)
(* sum-check prover and verifier, the multilinear KZG commitment and the  *)
(* GKR prover and verifier.                                               *)
(*                                                                         *)
(* Field elements are integers modulo FieldP.  Group elements of G1, G2   *)
(* and Gt are modelled by their exponents (discrete logarithms) and the   *)
(* pairing by multiplication of exponents.  The Keccak sponge is an       *)
(* opaque deterministic function of the absorbed byte stream; Salt picks  *)
(* one such function.                                                     *)
(***************************************************************************)
EXTENDS Integers, Sequences, FiniteSets, TLC

\* ------------------------------------------------------------------ bounds

\* Index into Primes of the field modulus.
PrimeIdx == 1
\* Largest number of variables of an input multilinear polynomial.
MaxVars == 2
\* Input evaluations are drawn from 0..MaxVal.
MaxVal == 2
\* The sponge functions considered are those seeded by 0..MaxSalt.
MaxSalt == 1
\* Bytes of a serialised field element and of a digest (32 in the program).
ByteLen == 2
\* Gates read wires 0..MaxWire of the layer below.
MaxWire == 1
\* Largest number of gates of a layer.
MaxGates == 1
\* Largest number of layers of a circuit.
MaxLayers == 2

Primes == <<3, 5, 7, 11, 13>>
FieldP == Primes[PrimeIdx + 1]
Field == 0 .. (FieldP - 1)
Vals == 0 .. MaxVal
ByteBase == 256

\* ------------------------------------------------------------ field (ark_ff)

FAdd(a, b) == (a + b) % FieldP
FSub(a, b) == (a + FieldP - b) % FieldP
FMul(a, b) == (a * b) % FieldP
FNeg(a) == (FieldP - a) % FieldP
\* inverse().unwrap(): defined for a # 0 only
FInv(a) == CHOOSE x \in Field : (x * a) % FieldP = 1
FDiv(a, b) == FMul(a, FInv(b))
\* T::from(k) for a small unsigned integer k
FFrom(k) == k % FieldP

RECURSIVE Pow2(_)
Pow2(k) == IF k = 0 THEN 1 ELSE 2 * Pow2(k - 1)

RECURSIVE ILog2(_)
\* usize::ilog2: floor of the binary logarithm, n >= 1
ILog2(n) == IF n <= 1 THEN 0 ELSE 1 + ILog2(n \div 2)

IsPowerOfTwo(n) == n >= 1 /\ Pow2(ILog2(n)) = n

\* usize::next_power_of_two
NextPowerOfTwo(n) == IF n <= 1 THEN 1 ELSE IF IsPowerOfTwo(n) THEN n ELSE 2 * Pow2(ILog2(n))

RECURSIVE BitOr(_, _)
BitOr(a, b) ==
    IF a = 0 THEN b
    ELSE IF b = 0 THEN a
    ELSE (IF (a % 2 = 1) \/ (b % 2 = 1) THEN 1 ELSE 0) + 2 * BitOr(a \div 2, b \div 2)

RECURSIVE FSumSeq(_)
\* iter().sum() of field elements
FSumSeq(s) == IF s = <<>> THEN 0 ELSE FAdd(Head(s), FSumSeq(Tail(s)))

Zeros(n) == [i \in 1 .. n |-> 0]

\* Option<T>: None is the empty sequence, Some(v) the one-element sequence
None == <<>>
Some(v) == <<v>>
IsSome(o) == Len(o) = 1
Unwrap(o) == o[1]

\* ------------------------------------------------- byte encodings (ark_ff)

RECURSIVE ToBytesLE(_, _)
\* into_bigint().to_bytes_le(): k little-endian bytes of the representative
ToBytesLE(x, k) == IF k = 0 THEN <<>> ELSE <<x % ByteBase>> \o ToBytesLE(x \div ByteBase, k - 1)

FieldToBytes(x) == ToBytesLE(x, ByteLen)

RECURSIVE FromBytesLE(_)
FromBytesLE(bs) == IF bs = <<>> THEN 0 ELSE Head(bs) + ByteBase * FromBytesLE(Tail(bs))

\* T::from_le_bytes_mod_order
FromLeBytesModOrder(bs) == FromBytesLE(bs) % FieldP

RECURSIVE FlatBytes(_)
\* flat_map(|point| point.into_bigint().to_bytes_le()) over field elements
FlatBytes(s) == IF s = <<>> THEN <<>> ELSE FieldToBytes(Head(s)) \o FlatBytes(Tail(s))

\* ---------------------------------------------------- univariate polynomial

RECURSIVE UniEvalLoop(_, _, _, _, _)
UniEvalLoop(c, x, i, result, running_x) ==
    IF i > Len(c) THEN result
    ELSE UniEvalLoop(c, x, i + 1, FAdd(result, FMul(c[i], running_x)), FMul(running_x, x))

UniEvaluate(c, x) == UniEvalLoop(c, x, 1, FFrom(0), FFrom(1))

EvaluateSumOverBooleanHypercube(c) == FAdd(UniEvaluate(c, FFrom(0)), UniEvaluate(c, FFrom(1)))

UniScalarMul(c, num) == [i \in 1 .. Len(c) |-> FMul(c[i], num)]

\* coefs[i + j] += greater[i] * lesser[j]
UniMul(p1, p2) ==
    LET len1 == Len(p1)
        len2 == Len(p2)
        greater == IF len2 > len1 THEN p2 ELSE p1
        lesser == IF len2 > len1 THEN p1 ELSE p2
        Term(k, i) == IF k - i >= 0 /\ k - i < Len(lesser)
                      THEN FMul(greater[i + 1], lesser[k - i + 1]) ELSE 0
    IN  [k1 \in 1 .. (len1 + len2 - 1) |->
            FSumSeq([i1 \in 1 .. Len(greater) |-> Term(k1 - 1, i1 - 1)])]

\* the result is as long as the SHORTER operand (cmp::min)
UniAdd(p1, p2) ==
    LET n == IF Len(p1) < Len(p2) THEN Len(p1) ELSE Len(p2)
    IN  [i \in 1 .. n |-> FAdd(p1[i], p2[i])]

UniToBytes(c) == FlatBytes(c)

\* the numerator with the factor of x_i itself not skipped
RECURSIVE InterpNumeratorAll(_, _, _, _)
InterpNumeratorAll(xs, i, j, acc) ==
    IF j > Len(xs) THEN acc
    ELSE InterpNumeratorAll(xs, i, j + 1, UniMul(acc, <<FNeg(xs[j]), FFrom(1)>>))

RECURSIVE InterpNumerator(_, _, _, _)
InterpNumerator(xs, i, j, acc) ==
    IF j > Len(xs) THEN acc
    ELSE IF j = i THEN InterpNumerator(xs, i, j + 1, acc)
    ELSE InterpNumerator(xs, i, j + 1, UniMul(acc, <<FNeg(xs[j]), FFrom(1)>>))

RECURSIVE InterpDenominator(_, _, _, _)
InterpDenominator(xs, i, j, acc) ==
    IF j > Len(xs) THEN acc
    ELSE IF j = i THEN InterpDenominator(xs, i, j + 1, acc)
    ELSE InterpDenominator(xs, i, j + 1, FMul(acc, FSub(xs[i], xs[j])))

\* the division y_i / denominator panics when two x are equal
InterpolatePanics(xs, ys) ==
    \/ Len(ys) < Len(xs)
    \/ \E i \in 1 .. Len(xs) : InterpDenominator(xs, i, 1, FFrom(1)) = 0

RECURSIVE InterpLoop(_, _, _, _)
InterpLoop(xs, ys, i, res) ==
    IF i > Len(xs) THEN res
    ELSE InterpLoop(xs, ys, i + 1,
            UniAdd(res, UniScalarMul(InterpNumerator(xs, i, 1, <<FFrom(1)>>),
                                     FDiv(ys[i], InterpDenominator(xs, i, 1, FFrom(1))))))

Interpolate(xs, ys) == InterpLoop(xs, ys, 1, Zeros(Len(xs)))

\* ------------------------------- multilinear polynomial (evaluation form)

NumberOfVariables(e) == ILog2(Len(e))

\* the flipped index with variable 0 as the least significant bit
GetFlippedBitLsbFirst(e, index_to_flip, number_to_flip) ==
    BitOr(number_to_flip, Pow2(index_to_flip))

GetFlippedBitWithBitwiseOr(e, index_to_flip, number_to_flip) ==
    BitOr(number_to_flip, Pow2(NumberOfVariables(e) - 1 - index_to_flip))

RECURSIVE Y1Y2Loop(_, _, _, _, _)
Y1Y2Loop(e, variable_idx, k, y1_index, acc) ==
    IF k = Len(e) \div 2 THEN acc
    ELSE LET target == Pow2(NumberOfVariables(e) - 1 - variable_idx)
             y2_index == GetFlippedBitWithBitwiseOr(e, variable_idx, y1_index)
             next == IF (y1_index + 1) % target = 0 THEN y2_index + 1 ELSE y1_index + 1
         IN  Y1Y2Loop(e, variable_idx, k + 1, next, Append(acc, <<y1_index, y2_index>>))

\* pairs of 0-based indexes (bit cleared, bit set)
GetY1Y2Indexes(e, variable_idx) == Y1Y2Loop(e, variable_idx, 0, 0, <<>>)

\* y2 + r (y1 - y2): the two points of each pair taken the other way round
PartiallyEvaluateSwapped(e, variable_idx, r) ==
    LET idx == GetY1Y2Indexes(e, variable_idx)
    IN  [k \in 1 .. (Len(e) \div 2) |->
            LET y1 == e[idx[k][1] + 1]
                y2 == e[idx[k][2] + 1]
            IN  FAdd(y2, FMul(FSub(y1, y2), r))]

PartiallyEvaluate(e, variable_idx, r) ==
    LET idx == GetY1Y2Indexes(e, variable_idx)
    IN  [k \in 1 .. (Len(e) \div 2) |->
            LET y1 == e[idx[k][1] + 1]
                y2 == e[idx[k][2] + 1]
            IN  FAdd(y1, FMul(FSub(y2, y1), r))]

\* evaluate panics when the number of points is not the number of variables
EvaluatePanics(e, points) == Len(points) # NumberOfVariables(e)

RECURSIVE EvaluateLoop(_, _, _, _)
EvaluateLoop(acc, points, i, done) ==
    IF i > Len(points) THEN acc
    ELSE IF IsSome(points[i])
         THEN EvaluateLoop(PartiallyEvaluate(acc, (i - 1) - done, Unwrap(points[i])),
                           points, i + 1, done + 1)
         ELSE EvaluateLoop(acc, points, i + 1, done)

Evaluate(e, points) == EvaluateLoop(e, points, 1, 0)

MlpToBytes(e) == FlatBytes(e)

EvaluationSum(e) == FSumSeq(e)

MlpScalarMul(e, scalar) == [i \in 1 .. Len(e) |-> FMul(e[i], scalar)]

MlpAdd(e, other) == [i \in 1 .. Len(other) |-> FAdd(0, FAdd(e[i], other[i]))]

MlpMinus(e, v) == [i \in 1 .. Len(e) |-> FSub(e[i], v)]

\* the quotient with each pair subtracted the other way round
ComputeQuotientReversed(e, variable_index) ==
    LET idx == GetY1Y2Indexes(e, variable_index)
    IN  [k \in 1 .. Len(idx) |-> FSub(e[idx[k][1] + 1], e[idx[k][2] + 1])]

\* the quotient of compute_quotient_remainder
ComputeQuotient(e, variable_index) ==
    LET idx == GetY1Y2Indexes(e, variable_index)
    IN  [k \in 1 .. Len(idx) |-> FSub(e[idx[k][2] + 1], e[idx[k][1] + 1])]

BlowupLeft(e) == e \o e

RECURSIVE BlowupRight(_)
BlowupRight(e) == IF e = <<>> THEN <<>> ELSE <<Head(e), Head(e)>> \o BlowupRight(Tail(e))

RECURSIVE BlowUpNTimes(_, _, _)
BlowUpNTimes(dir, n, e) ==
    IF n = 0 THEN e
    ELSE BlowUpNTimes(dir, n - 1, IF dir = "Left" THEN BlowupLeft(e) ELSE BlowupRight(e))

\* idx_b = i / w_b_len, idx_c = i % w_c_len
OperateW(w_b, w_c, operation) ==
    [i1 \in 1 .. (Len(w_b) * Len(w_c)) |->
        LET i == i1 - 1
            idx_b == i \div Len(w_b)
            idx_c == i % Len(w_c)
        IN  IF operation = "Add" THEN FAdd(w_b[idx_b + 1], w_c[idx_c + 1])
            ELSE FMul(w_b[idx_b + 1], w_c[idx_c + 1])]

\* evals_b[idx_b] is out of bounds for the last i when w_b is the shorter:
\* idx_b reaches w_c_len - 1
OperateWPanics(w_b, w_c) == (Len(w_b) * Len(w_c) - 1) \div Len(w_b) >= Len(w_b)

WAdd(w_b, w_c) == OperateW(w_b, w_c, "Add")

WMul(self, other) == OperateW(other, self, "Mul")

\* ---------------------------------------------------------------- transcript

RECURSIVE Power(_, _)
Power(b, k) == IF k = 0 THEN 1 ELSE b * Power(b, k - 1)

\* number of digests
HashSpace == Power(ByteBase, ByteLen)

\* a * b modulo HashSpace, a digit of b at a time
RECURSIVE HashMul(_, _)
HashMul(a, b) ==
    IF b = 0 THEN 0
    ELSE (a * (b % 16) + 16 * HashMul(a, b \div 16)) % HashSpace

\* The sponge: a deterministic function of the absorbed bytes. Absorbing byte b
\* takes the state h to (h * 31 + b + 7) % HashSpace; HashSeg gives, for a run
\* of bytes, the state c it leads to from 0 and the factor p it applies to the
\* state before it, so that runs compose.
RECURSIVE HashSeg(_)
HashSeg(bytes) ==
    IF Len(bytes) = 1
    THEN [c |-> (bytes[1] + 7) % HashSpace, p |-> 31 % HashSpace]
    ELSE LET l == HashSeg(SubSeq(bytes, 1, Len(bytes) \div 2))
             r == HashSeg(SubSeq(bytes, Len(bytes) \div 2 + 1, Len(bytes)))
         IN  [c |-> (HashMul(l.c, r.p) + r.c) % HashSpace, p |-> HashMul(l.p, r.p)]

HashFold(h, bytes) ==
    IF bytes = <<>> THEN h
    ELSE LET seg == HashSeg(bytes)
         IN  (HashMul(h, seg.p) + seg.c) % HashSpace

\* hasher.clone().finalize(): ByteLen digest bytes
Finalize(salt, absorbed) == ToBytesLE(HashFold(salt, absorbed), ByteLen)

TranscriptNew == <<>>

\* an append that frames each call's bytes with their length
TAppendFramed(t, data) == t \o <<Len(data)>> \o data

TAppend(t, data) == t \o data

RECURSIVE TAppendN(_, _)
TAppendN(t, datas) == IF datas = <<>> THEN t ELSE TAppendN(TAppend(t, Head(datas)), Tail(datas))

\* sample_challenge that returns the challenge and leaves the hasher alone
SampleChallengeNoAbsorb(salt, t) == [t |-> t, c |-> FromLeBytesModOrder(Finalize(salt, t))]

\* the digest is absorbed back; the challenge is the digest modulo the order
SampleChallenge(salt, t) ==
    LET hash_result == Finalize(salt, t)
    IN  [t |-> TAppend(t, hash_result), c |-> FromLeBytesModOrder(hash_result)]

RECURSIVE SampleNChallenges(_, _, _)
SampleNChallenges(salt, t, n) ==
    IF n = 0 THEN [t |-> t, cs |-> <<>>]
    ELSE LET one == SampleChallenge(salt, t)
             rest == SampleNChallenges(salt, one.t, n - 1)
         IN  [t |-> rest.t, cs |-> <<one.c>> \o rest.cs]

\* ------------------------------------------- product and sum polynomials

\* ProductPolynomial::new panics unless all factors have the same length
ProductNewPanics(polys) == \E i \in 1 .. Len(polys) : Len(polys[i]) # Len(polys[1])

ProdLength(polys) == Len(polys[1])

ProdPartialEvaluatePanics(polys, t) == Len(t) # ILog2(ProdLength(polys))

ProdPartialEvaluate(polys, t) == [i \in 1 .. Len(polys) |-> Evaluate(polys[i], t)]

RECURSIVE FProdAt(_, _, _)
FProdAt(polys, index, k) ==
    IF k > Len(polys) THEN FFrom(1) ELSE FMul(polys[k][index], FProdAt(polys, index, k + 1))

\* element-wise product of the factors
ProdReduce(polys) == [index \in 1 .. ProdLength(polys) |-> FProdAt(polys, index, 1)]

\* SumPolynomial::new panics unless all products have the same length
SumNewPanics(prods) == \E i \in 1 .. Len(prods) : ProdLength(prods[i]) # ProdLength(prods[1])

SumLength(prods) == ProdLength(prods[1])

SumNumberOfVariables(prods) == ILog2(SumLength(prods))

SumDegree(prods) == Len(prods)

SumPartialEvaluatePanics(prods, t) ==
    \E i \in 1 .. Len(prods) : ProdPartialEvaluatePanics(prods[i], t)

SumPartialEvaluate(prods, t) == [i \in 1 .. Len(prods) |-> ProdPartialEvaluate(prods[i], t)]

\* element-wise sum of the reduced products
SumReduce(prods) ==
    [index \in 1 .. SumLength(prods) |->
        FSumSeq([k \in 1 .. Len(prods) |-> ProdReduce(prods[k])[index]])]

\* --------------------------------------------------------- sum-check prover

\* mutant: the challenge fixes the last variable instead of the first
FirstSomePointsLast(v, variables_length) ==
    [idx1 \in 1 .. variables_length |-> IF idx1 = variables_length THEN Some(v) ELSE None]

\* (Some(challenge), None, ..., None) of the given length
FirstSomePoints(v, variables_length) ==
    [idx1 \in 1 .. variables_length |-> IF idx1 = 1 THEN Some(v) ELSE None]

\* sample a challenge and the points that fix the first variable to it
GenerateEvaluationPoints(salt, t, variables_length) ==
    LET s == SampleChallenge(salt, t)
    IN  [t |-> s.t, c |-> s.c, points |-> FirstSomePoints(s.c, variables_length)]

\* the round polynomial taken over the last variable: entries of even and of
\* odd index summed
MultiRoundPolyOfLastVariable(evaluation_points) ==
    LET n == Len(evaluation_points)
        eval_0 == FSumSeq([k \in 1 .. n \div 2 |-> evaluation_points[2 * k - 1]])
        eval_1 == FSumSeq([k \in 1 .. n \div 2 |-> evaluation_points[2 * k]])
    IN  [claimed_sum |-> FAdd(eval_0, eval_1),
         poly |-> Interpolate(<<FFrom(0), FFrom(1)>>, <<eval_0, eval_1>>)]

\* the round polynomial of a multilinear table: halves summed, interpolated on (0, 1)
MultiRoundPoly(evaluation_points) ==
    LET half == Len(evaluation_points) \div 2
        eval_0 == FSumSeq(SubSeq(evaluation_points, 1, half))
        eval_1 == FSumSeq(SubSeq(evaluation_points, half + 1, Len(evaluation_points)))
    IN  [claimed_sum |-> FAdd(eval_0, eval_1),
         poly |-> Interpolate(<<FFrom(0), FFrom(1)>>, <<eval_0, eval_1>>)]

\* evaluation_points[i] for i in 0..degree: the first variable fixed to i, reduced, summed
SumRoundEvaluationPoints(prods) ==
    [i1 \in 1 .. (SumDegree(prods) + 1) |->
        FSumSeq(SumReduce(SumPartialEvaluate(prods,
                    FirstSomePoints(FFrom(i1 - 1), SumNumberOfVariables(prods)))))]

SumRoundPanics(prods) ==
    InterpolatePanics(<<FFrom(0), FFrom(1), FFrom(2)>>, SumRoundEvaluationPoints(prods))

SumRoundPoly(prods) ==
    LET evaluation_points == SumRoundEvaluationPoints(prods)
    IN  [claimed_sum |-> FAdd(evaluation_points[1], evaluation_points[2]),
         poly |-> Interpolate(<<FFrom(0), FFrom(1), FFrom(2)>>, evaluation_points)]

\* One iteration of the loop of generate_round_polys.  st is
\* [kind, poly, t, round_polys, challenges]; kind is "multi" or "sum".
ProverRoundStep(salt, st) ==
    LET rp == IF st.kind = "sum" THEN SumRoundPoly(st.poly) ELSE MultiRoundPoly(st.poly)
        t1 == TAppend(TAppend(st.t, FieldToBytes(rp.claimed_sum)), UniToBytes(rp.poly))
        nv == IF st.kind = "sum" THEN SumNumberOfVariables(st.poly)
              ELSE NumberOfVariables(st.poly)
        g == GenerateEvaluationPoints(salt, t1, nv)
    IN  [kind |-> st.kind,
         poly |-> IF st.kind = "sum" THEN SumPartialEvaluate(st.poly, g.points)
                  ELSE Evaluate(st.poly, g.points),
         t |-> g.t,
         round_polys |-> Append(st.round_polys, rp.poly),
         challenges |-> Append(st.challenges, g.c)]

RECURSIVE ProverRounds(_, _, _)
\* the whole loop: n iterations
ProverRounds(salt, st, n) ==
    IF n = 0 THEN st
    ELSE ProverRounds(salt, ProverRoundStep(salt, st), n - 1)

\* generate_proof_for_partial_verify: (proof, random points, transcript after)
GenerateProofForPartialVerify(salt, initial_claim_sum, prods, t) ==
    LET st == ProverRounds(salt,
                  [kind |-> "sum", poly |-> prods, t |-> t,
                   round_polys |-> <<>>, challenges |-> <<>>],
                  SumNumberOfVariables(prods))
    IN  [proof |-> [initial_claim_sum |-> initial_claim_sum, round_polys |-> st.round_polys],
         random_points |-> st.challenges,
         t |-> st.t]

\* ------------------------------------------------------- sum-check verifier

\* mutant: the round check is left out
RoundSumUnchecked(g, curr_claimed_sum) == TRUE

\* the check of one round: g(0) + g(1) against the current claim
RoundSumMatches(g, curr_claimed_sum) ==
    EvaluateSumOverBooleanHypercube(g) = curr_claimed_sum

\* mutant: the polynomial is absorbed before the claim
RoundAbsorbSwapped(t, curr_claimed_sum, g) ==
    TAppendN(t, <<UniToBytes(g), FieldToBytes(curr_claimed_sum)>>)

\* what a passing round absorbs: the claim, then the polynomial
RoundAbsorb(t, curr_claimed_sum, g) ==
    TAppendN(t, <<FieldToBytes(curr_claimed_sum), UniToBytes(g)>>)

\* the claim after a round: the round polynomial at the challenge
NextClaimedSum(g, challenge) == UniEvaluate(g, challenge)

\* mutant: the round is absorbed and the challenge squeezed before the check
PartialVerifyStepAbsorbsFirst(salt, st, g) ==
    LET s == SampleChallenge(salt, RoundAbsorb(st.t, st.sum, g))
    IN  IF ~RoundSumMatches(g, st.sum)
        THEN [ok |-> FALSE, done |-> TRUE, sum |-> st.sum,
              challenges |-> Append(st.challenges, Some(s.c)), t |-> s.t]
        ELSE [ok |-> TRUE, done |-> FALSE,
              sum |-> NextClaimedSum(g, s.c),
              challenges |-> Append(st.challenges, Some(s.c)),
              t |-> s.t]

\* One iteration of the loop of partial_verify.  st is
\* [ok, done, sum, challenges, t]; done is set when the loop returns early.
PartialVerifyStep(salt, st, g) ==
    IF ~RoundSumMatches(g, st.sum)
    THEN [ok |-> FALSE, done |-> TRUE, sum |-> st.sum, challenges |-> st.challenges, t |-> st.t]
    ELSE LET s == SampleChallenge(salt, RoundAbsorb(st.t, st.sum, g))
         IN  [ok |-> TRUE, done |-> FALSE,
              sum |-> NextClaimedSum(g, s.c),
              challenges |-> Append(st.challenges, Some(s.c)),
              t |-> s.t]

RECURSIVE PartialVerifyLoop(_, _, _, _)
PartialVerifyLoop(salt, st, round_polys, i) ==
    IF st.done \/ i > Len(round_polys) THEN st
    ELSE PartialVerifyLoop(salt, PartialVerifyStep(salt, st, round_polys[i]), round_polys, i + 1)

\* partial_verify: (ok, final claim, challenges) and the transcript after
PartialVerify(salt, proof, t) ==
    PartialVerifyLoop(salt,
        [ok |-> TRUE, done |-> FALSE, sum |-> proof.initial_claim_sum,
         challenges |-> <<>>, t |-> t],
        proof.round_polys, 1)

\* mutant: the oracle check is left out
OracleUnchecked(initial_polynomial, challenges, final_claim_sum) == TRUE

\* perform_oracle_check: the polynomial at the challenges against the final claim
PerformOracleCheck(initial_polynomial, challenges, final_claim_sum) ==
    Evaluate(initial_polynomial, challenges)[1] = final_claim_sum

\* verify_proof after partial_verify succeeded: no round at all is rejected, the
\* oracle check panics when the challenges are not as many as the variables
VerifyProofOutcome(initial_polynomial, proof, challenges, final_claim_sum) ==
    IF proof.round_polys = <<>> THEN "false"
    ELSE IF EvaluatePanics(initial_polynomial, challenges) THEN "panic"
    ELSE IF PerformOracleCheck(initial_polynomial, challenges, final_claim_sum) THEN "true"
    ELSE "false"

\* the first check of verify_proof
InitialClaimMatches(initial_polynomial, proof) ==
    EvaluationSum(initial_polynomial) = proof.initial_claim_sum

\* ------------------------------------------------------- multilinear KZG

\* Group elements by their exponents: G1 and G2 have prime order FieldP, and the
\* pairing multiplies exponents.
G1Generator == [grp |-> "G1", e |-> 1]

G2Generator == [grp |-> "G2", e |-> 1]

GZero(grp) == [grp |-> grp, e |-> 0]

MulBigint(pt, x) == [grp |-> pt.grp, e |-> FMul(pt.e, x)]

GAdd(a, b) == [grp |-> a.grp, e |-> FAdd(a.e, b.e)]

GSub(a, b) == [grp |-> a.grp, e |-> FSub(a.e, b.e)]

RECURSIVE GSum(_, _)
GSum(grp, s) == IF s = <<>> THEN GZero(grp) ELSE GAdd(Head(s), GSum(grp, Tail(s)))

Pairing(a, b) == [grp |-> "GT", e |-> FMul(a.e, b.e)]

Max(a, b) == IF a >= b THEN a ELSE b

\* mutant: tau_1 is bound to the least significant bit of the index
SkipValueLsbFirst(n, tau_idx) == Pow2(tau_idx)

\* skip_value of generate_lagrange_basis_for_n_variables
SkipValue(n, tau_idx) == Pow2(n - tau_idx - 1)

\* the inner loop of generate_lagrange_basis_for_n_variables for entry i
RECURSIVE LagrangeBasisEntry(_, _, _, _, _)
LagrangeBasisEntry(i, n, taus, tau_idx, acc) ==
    IF tau_idx >= Len(taus) THEN acc
    ELSE LET tau == taus[tau_idx + 1]
             factor == IF (i \div SkipValue(n, tau_idx)) % 2 = 0
                       THEN FSub(1, tau)
                       ELSE tau
         IN  LagrangeBasisEntry(i, n, taus, tau_idx + 1, FMul(acc, factor))

GenerateLagrangeBasisPanics(n, taus) == n # Len(taus)

GenerateLagrangeBasisForNVariables(n, taus) ==
    [i1 \in 1 .. Pow2(n) |-> LagrangeBasisEntry(i1 - 1, n, taus, 0, 1)]

EncryptLagrangeBasis(lagrange_basis) ==
    [i \in 1 .. Len(lagrange_basis) |-> MulBigint(G1Generator, lagrange_basis[i])]

\* TrustedSetup::new
TrustedSetupNew(taus) ==
    [encrypted_taus |-> [i \in 1 .. Len(taus) |-> MulBigint(G2Generator, taus[i])],
     encrypted_lagrange_basis |->
        EncryptLagrangeBasis(GenerateLagrangeBasisForNVariables(Len(taus), taus))]

EvaluateAtTauPanics(polynomial_evals, encrypted_lagrange_basis) ==
    Len(polynomial_evals) # Len(encrypted_lagrange_basis)

EvaluateAtTau(polynomial_evals, encrypted_lagrange_basis) ==
    GSum("G1", [i \in 1 .. Len(encrypted_lagrange_basis) |->
                    MulBigint(encrypted_lagrange_basis[i], polynomial_evals[i])])

GenerateCommitment(polynomial_evals, encrypted_lagrange_basis) ==
    EvaluateAtTau(polynomial_evals, encrypted_lagrange_basis)

\* mutant: the quotient is blown up to the right
BlownUpQuotientRight(idx, openings_len, quotient) ==
    BlowUpNTimes("Right", Max(idx + 1, openings_len - ILog2(Len(quotient))), quotient)

\* generate_proof: the quotient of round idx widened to all the variables
BlownUpQuotient(idx, openings_len, quotient) ==
    BlowUpNTimes("Left", Max(idx + 1, openings_len - ILog2(Len(quotient))), quotient)

\* generate_proof before its loop: commitment, v, f - v
KzgProofStart(openings, encrypted_lagrange_basis, polynomial_evals) ==
    LET opening_points == [i \in 1 .. Len(openings) |-> Some(openings[i])]
    IN  IF \/ EvaluateAtTauPanics(polynomial_evals, encrypted_lagrange_basis)
           \/ EvaluatePanics(polynomial_evals, opening_points)
        THEN [panicked |-> TRUE, commitment |-> GZero("G1"), v |-> 0,
              dividend |-> <<>>, idx |-> 0, quotients |-> <<>>]
        ELSE LET v_poly == Evaluate(polynomial_evals, opening_points)
             IN  [panicked |-> FALSE,
                  commitment |-> GenerateCommitment(polynomial_evals, encrypted_lagrange_basis),
                  v |-> v_poly[1],
                  dividend |-> MlpMinus(polynomial_evals, v_poly[1]),
                  idx |-> 0, quotients |-> <<>>]

\* one iteration of the loop of generate_proof
KzgQuotientStep(st, openings, encrypted_lagrange_basis) ==
    LET quotient == ComputeQuotient(st.dividend, 0)
        remainder == PartiallyEvaluate(st.dividend, 0, openings[st.idx + 1])
        blown == BlownUpQuotient(st.idx, Len(openings), quotient)
    IN  IF \/ ~IsPowerOfTwo(Len(blown))
           \/ EvaluateAtTauPanics(blown, encrypted_lagrange_basis)
        THEN [st EXCEPT !.panicked = TRUE]
        ELSE [st EXCEPT !.dividend = remainder,
                        !.idx = st.idx + 1,
                        !.quotients = Append(st.quotients,
                                             EvaluateAtTau(blown, encrypted_lagrange_basis))]

\* mutant: v is left out of the left-hand side
KzgLhsWithoutV(kproof) == Pairing(kproof.commitment, MulBigint(G2Generator, 1))

\* verify_proof: e(commitment - g1^v, g2^1)
KzgLhs(kproof) ==
    Pairing(GSub(kproof.commitment, MulBigint(G1Generator, kproof.v)),
            MulBigint(G2Generator, 1))

\* verify_proof: the sum over the quotients of e(q_tau_i, tau_i - g2^opening_i)
KzgRhs(kproof, openings, encrypted_taus) ==
    GSum("GT", [i \in 1 .. Len(kproof.q_taus) |->
                    Pairing(kproof.q_taus[i],
                            GSub(encrypted_taus[i], MulBigint(G2Generator, openings[i])))])

KzgVerifyPanics(kproof, openings, encrypted_taus) ==
    \/ Len(kproof.q_taus) > Len(encrypted_taus)
    \/ Len(kproof.q_taus) > Len(openings)

KzgVerifyProof(kproof, openings, encrypted_taus) ==
    IF KzgVerifyPanics(kproof, openings, encrypted_taus) THEN "panic"
    ELSE IF KzgLhs(kproof) = KzgRhs(kproof, openings, encrypted_taus) THEN "true"
    ELSE "false"

\* ------------------------------------------------------ arithmetic circuit

\* A circuit is the sequence of its layers, the layer next to the inputs
\* first; a layer is a sequence of gates.
Gate(left, right, operation) == [left |-> left, right |-> right, operation |-> operation]

\* the output of a gate as if every gate added
GateOutputAddOnly(gate, running_inputs) ==
    FAdd(running_inputs[gate.left + 1], running_inputs[gate.right + 1])

GateOutput(gate, running_inputs) ==
    IF gate.operation = "Add"
    THEN FAdd(running_inputs[gate.left + 1], running_inputs[gate.right + 1])
    ELSE FMul(running_inputs[gate.left + 1], running_inputs[gate.right + 1])

\* the wires a layer produces: max(next_power_of_two(gates), 2), unused ones 0
NextInputs(gates, running_inputs) ==
    [idx1 \in 1 .. Max(NextPowerOfTwo(Len(gates)), 2) |->
        IF idx1 <= Len(gates) THEN GateOutput(gates[idx1], running_inputs) ELSE FFrom(0)]

RECURSIVE EvaluateAtInputPanicsFrom(_, _, _)
\* evaluate_at_input fails on a wire index outside the wires below
EvaluateAtInputPanicsFrom(layers, k, width) ==
    IF k > Len(layers) THEN FALSE
    ELSE \/ \E i \in 1 .. Len(layers[k]) :
               layers[k][i].left >= width \/ layers[k][i].right >= width
         \/ EvaluateAtInputPanicsFrom(layers, k + 1, Max(NextPowerOfTwo(Len(layers[k])), 2))

EvaluateAtInputPanics(layers, inputs) ==
    \/ ~IsPowerOfTwo(Len(inputs))
    \/ EvaluateAtInputPanicsFrom(layers, 1, Len(inputs))

RECURSIVE EvaluateAtInputLoop(_, _, _, _)
EvaluateAtInputLoop(layers, k, running_inputs, evaluation_layers) ==
    IF k > Len(layers) THEN evaluation_layers
    ELSE LET next_inputs == NextInputs(layers[k], running_inputs)
         IN  EvaluateAtInputLoop(layers, k + 1, next_inputs,
                                 Append(evaluation_layers, next_inputs))

\* evaluate_at_input: the wires of every layer, the inputs first
EvaluateAtInput(layers, inputs) == EvaluateAtInputLoop(layers, 1, inputs, <<inputs>>)

\* the index with the right input before the left
GetBitIdxRightFirst(output_idx, left_idx, right_idx, input_bit_repr) ==
    BitOr(BitOr(output_idx * Pow2(input_bit_repr), right_idx) * Pow2(input_bit_repr),
          left_idx)

\* (((output_idx << b) | left_idx) << b) | right_idx
GetBitIdx(output_idx, left_idx, right_idx, input_bit_repr) ==
    BitOr(BitOr(output_idx * Pow2(input_bit_repr), left_idx) * Pow2(input_bit_repr),
          right_idx)

RECURSIVE MaxInputLength(_)
\* the maximum of left + 1 and right + 1 over the gates
MaxInputLength(gates) ==
    IF gates = <<>> THEN 0
    ELSE Max(Max(Head(gates).left + 1, Head(gates).right + 1), MaxInputLength(Tail(gates)))

\* get_gate_poly: bits of an input index, from the largest index a gate reads
InputBitLength(gates) == ILog2(NextPowerOfTwo(MaxInputLength(gates)))

GetGatePolyPanics(layers, layer_idx) == layer_idx >= Len(layers)

\* get_gate_poly: layer_idx counts from the output layer
GetGatePoly(layers, layer_idx, condition) ==
    LET gates == layers[Len(layers) - layer_idx]
        output_length == IF NextPowerOfTwo(Len(gates)) = 1 THEN 2
                         ELSE NextPowerOfTwo(Len(gates))
        input_bit_length == InputBitLength(gates)
    IN  [i1 \in 1 .. output_length * Pow2(2 * input_bit_length) |->
            IF \E idx1 \in 1 .. Len(gates) :
                  /\ gates[idx1].operation = condition
                  /\ GetBitIdx(idx1 - 1, gates[idx1].left, gates[idx1].right,
                               input_bit_length) = i1 - 1
            THEN FFrom(1) ELSE FFrom(0)]

GetWIPanics(layer_idx, layer_evaluations) == layer_idx >= Len(layer_evaluations)

GetWI(layer_idx, layer_evaluations) == layer_evaluations[Len(layer_evaluations) - layer_idx]

GetAddI(layers, layer_idx) == GetGatePoly(layers, layer_idx, "Add")

GetMulI(layers, layer_idx) == GetGatePoly(layers, layer_idx, "Mul")

GetLayerCount(layers) == Len(layers)

\* ---------------------------------------------------------------- GKR utils

GetFoldedClaimSum(w_i_b_eval, w_i_c_eval, alpha, beta) ==
    FAdd(FMul(w_i_b_eval, alpha), FMul(w_i_c_eval, beta))

\* get_folded_polys indexes r_b and r_c up to r_b.len() inside vectors as long
\* as the selector has variables
GetFoldedPolysPanics(muli_a_b_c, r_b, r_c) ==
    \/ Len(r_b) > NumberOfVariables(muli_a_b_c)
    \/ Len(r_b) > Len(r_c)

GetFoldedPolys(alpha, beta, muli_a_b_c, addi_a_b_c, r_b, r_c) ==
    LET n == NumberOfVariables(muli_a_b_c)
        eval_points_rb == [idx1 \in 1 .. n |-> IF idx1 <= Len(r_b) THEN r_b[idx1] ELSE None]
        eval_points_rc == [idx1 \in 1 .. n |-> IF idx1 <= Len(r_b) THEN r_c[idx1] ELSE None]
    IN  [muli |-> MlpAdd(MlpScalarMul(Evaluate(muli_a_b_c, eval_points_rb), alpha),
                         MlpScalarMul(Evaluate(muli_a_b_c, eval_points_rc), beta)),
         addi |-> MlpAdd(MlpScalarMul(Evaluate(addi_a_b_c, eval_points_rb), alpha),
                         MlpScalarMul(Evaluate(addi_a_b_c, eval_points_rc), beta))]

GetEvaluatedMuliAddiAtA(muli_a_b_c, addi_a_b_c, random_values) ==
    LET evaluation_points ==
            [idx1 \in 1 .. NumberOfVariables(muli_a_b_c) |->
                IF idx1 <= Len(random_values) THEN random_values[idx1] ELSE None]
    IN  [muli |-> Evaluate(muli_a_b_c, evaluation_points),
         addi |-> Evaluate(addi_a_b_c, evaluation_points)]

SomeAll(values) == [i \in 1 .. Len(values) |-> Some(values[i])]

\* --------------------------------------------------------------- GKR prover

\* generate_proof before its loop.  The state of the loop is
\* [panicked, layer_idx, t, random_values, running_layer_polynomial,
\*  w_polys_evals, sum_check_proofs].
GkrProverStart(salt, layers, inputs) ==
    LET circuit_evaluations == EvaluateAtInput(layers, inputs)
        w_0 == GetWI(0, circuit_evaluations)
        s == SampleNChallenges(salt, TAppend(TranscriptNew, MlpToBytes(w_0)),
                               NumberOfVariables(w_0))
    IN  [panicked |-> FALSE, layer_idx |-> 0, t |-> s.t,
         random_values |-> SomeAll(s.cs),
         running_layer_polynomial |-> w_0,
         w_polys_evals |-> <<>>, sum_check_proofs |-> <<>>]

\* the match of generate_proof at the output layer: the claim is W_0 at the
\* random values, the selectors are fixed at them
GkrProverClaimAtOutput(layers, st) ==
    IF EvaluatePanics(st.running_layer_polynomial, st.random_values)
    THEN [panicked |-> TRUE]
    ELSE LET at_a == GetEvaluatedMuliAddiAtA(GetMulI(layers, 0), GetAddI(layers, 0),
                                            st.random_values)
         IN  [panicked |-> FALSE,
              claim_sum |-> Evaluate(st.running_layer_polynomial, st.random_values)[1],
              muli |-> at_a.muli, addi |-> at_a.addi,
              t |-> st.t, w_polys_evals |-> st.w_polys_evals]

\* the match of generate_proof below the output layer: alpha-beta folding
GkrProverClaimFolded(salt, layers, st) ==
    LET half == Len(st.random_values) \div 2
        r_b == SubSeq(st.random_values, 1, half)
        r_c == SubSeq(st.random_values, half + 1, Len(st.random_values))
        muli_a_b_c == GetMulI(layers, st.layer_idx)
        addi_a_b_c == GetAddI(layers, st.layer_idx)
    IN  IF \/ EvaluatePanics(st.running_layer_polynomial, r_b)
           \/ EvaluatePanics(st.running_layer_polynomial, r_c)
           \/ GetFoldedPolysPanics(muli_a_b_c, r_b, r_c)
        THEN [panicked |-> TRUE]
        ELSE LET w_i_b_eval == Evaluate(st.running_layer_polynomial, r_b)[1]
                 w_i_c_eval == Evaluate(st.running_layer_polynomial, r_c)[1]
                 t1 == TAppendN(st.t, <<FieldToBytes(w_i_b_eval), FieldToBytes(w_i_c_eval)>>)
                 alpha == SampleChallenge(salt, t1)
                 beta == SampleChallenge(salt, alpha.t)
                 folded == GetFoldedPolys(alpha.c, beta.c, muli_a_b_c, addi_a_b_c, r_b, r_c)
             IN  [panicked |-> FALSE,
                  claim_sum |-> GetFoldedClaimSum(alpha.c, beta.c, w_i_b_eval, w_i_c_eval),
                  muli |-> folded.muli, addi |-> folded.addi,
                  t |-> beta.t,
                  w_polys_evals |-> Append(st.w_polys_evals, <<w_i_b_eval, w_i_c_eval>>)]

\* f_b_c of the layer: mul_i(b, c) W(b) W(c) + add_i(b, c) (W(b) + W(c))
GkrFbc(muli, addi, next_w_i) ==
    << <<muli, WMul(next_w_i, next_w_i)>>, <<addi, WAdd(next_w_i, next_w_i)>> >>

GkrFbcPanics(f_b_c) ==
    \/ ProductNewPanics(f_b_c[1])
    \/ ProductNewPanics(f_b_c[2])
    \/ SumNewPanics(f_b_c)

\* the end of an iteration of generate_proof: the sum-check proof is kept, its
\* random points are the next random values
GkrProverLayerEnd(st, c, next_w_i, sc) ==
    [panicked |-> FALSE, layer_idx |-> st.layer_idx + 1, t |-> sc.t,
     random_values |-> SomeAll(sc.random_points),
     running_layer_polynomial |-> next_w_i,
     w_polys_evals |-> c.w_polys_evals,
     sum_check_proofs |-> Append(st.sum_check_proofs, sc.proof)]

\* an iteration of generate_proof from the claim c on: f_b_c and its sum-check
GkrProverSumcheck(salt, st, c, next_w_i) ==
    IF c.panicked THEN [st EXCEPT !.panicked = TRUE]
    ELSE IF GkrFbcPanics(GkrFbc(c.muli, c.addi, next_w_i))
    THEN [st EXCEPT !.panicked = TRUE]
    ELSE GkrProverLayerEnd(st, c, next_w_i,
             GenerateProofForPartialVerify(salt, c.claim_sum,
                                           GkrFbc(c.muli, c.addi, next_w_i), c.t))

GkrProverClaim(salt, layers, st) ==
    IF st.layer_idx = 0 THEN GkrProverClaimAtOutput(layers, st)
    ELSE GkrProverClaimFolded(salt, layers, st)

\* one iteration of the loop of generate_proof
GkrProverLayer(salt, layers, inputs, st) ==
    GkrProverSumcheck(salt, st, GkrProverClaim(salt, layers, st),
                      GetWI(st.layer_idx + 1, EvaluateAtInput(layers, inputs)))

\* ------------------------------------------------------------- GKR verifier

\* verify_proof that draws the first random values before absorbing anything
GkrVerifierStartUnabsorbed(salt, gproof) ==
    LET s == SampleNChallenges(salt, TranscriptNew, NumberOfVariables(gproof.output_poly))
    IN  [layer_idx |-> 0, t |-> s.t, random_values |-> SomeAll(s.cs)]

\* verify_proof before its loop.  The state of the loop is
\* [layer_idx, t, random_values].
GkrVerifierStart(salt, gproof) ==
    LET s == SampleNChallenges(salt, TAppend(TranscriptNew, MlpToBytes(gproof.output_poly)),
                               NumberOfVariables(gproof.output_poly))
    IN  [layer_idx |-> 0, t |-> s.t, random_values |-> SomeAll(s.cs)]

\* the selectors of the layer as the verifier derives them, and the transcript after
GkrVerifierSelectors(salt, layers, st) ==
    LET muli_a_b_c == GetMulI(layers, st.layer_idx)
        addi_a_b_c == GetAddI(layers, st.layer_idx)
        half == Len(st.random_values) \div 2
        r_b == SubSeq(st.random_values, 1, half)
        r_c == SubSeq(st.random_values, half + 1, Len(st.random_values))
        alpha == SampleChallenge(salt, st.t)
        beta == SampleChallenge(salt, alpha.t)
    IN  IF st.layer_idx = 0
        THEN LET at_a == GetEvaluatedMuliAddiAtA(muli_a_b_c, addi_a_b_c, st.random_values)
             IN  [panicked |-> FALSE, muli |-> at_a.muli, addi |-> at_a.addi, t |-> st.t]
        ELSE IF GetFoldedPolysPanics(muli_a_b_c, r_b, r_c) THEN [panicked |-> TRUE]
        ELSE LET folded == GetFoldedPolys(alpha.c, beta.c, muli_a_b_c, addi_a_b_c, r_b, r_c)
             IN  [panicked |-> FALSE, muli |-> folded.muli, addi |-> folded.addi,
                  t |-> beta.t]

\* the evaluations of the next W at the two halves of the challenges: from the
\* inputs at the last layer, from the proof above it
GkrNextWEvals(layers, initial_inputs, gproof, layer_idx, next_evaluation_values) ==
    LET half == Len(next_evaluation_values) \div 2
        r_b == SubSeq(next_evaluation_values, 1, half)
        r_c == SubSeq(next_evaluation_values, half + 1, Len(next_evaluation_values))
    IN  IF layer_idx + 1 = GetLayerCount(layers)
        THEN IF \/ ~IsPowerOfTwo(Len(initial_inputs))
                \/ EvaluatePanics(initial_inputs, r_b)
                \/ EvaluatePanics(initial_inputs, r_c)
             THEN [panicked |-> TRUE]
             ELSE [panicked |-> FALSE,
                   b |-> Evaluate(initial_inputs, r_b)[1],
                   c |-> Evaluate(initial_inputs, r_c)[1]]
        ELSE IF layer_idx >= Len(gproof.w_polys_evals) THEN [panicked |-> TRUE]
        ELSE [panicked |-> FALSE,
              b |-> gproof.w_polys_evals[layer_idx + 1][1],
              c |-> gproof.w_polys_evals[layer_idx + 1][2]]

\* an iteration of verify_proof from the evaluations w of the next W on: they
\* are absorbed, and f_b_c at the challenges is compared with the final claim
GkrVerifierOracle(st, sel, pv, w) ==
    LET new_addi_b_c_eval == Evaluate(sel.addi, pv.challenges)[1]
        new_muli_b_c_eval == Evaluate(sel.muli, pv.challenges)[1]
        fbc_eval == FAdd(FMul(new_addi_b_c_eval, FAdd(w.b, w.c)),
                         FMul(new_muli_b_c_eval, FMul(w.b, w.c)))
        t2 == TAppendN(pv.t, <<FieldToBytes(w.b), FieldToBytes(w.c)>>)
    IN  IF w.panicked THEN [outcome |-> "panic", st |-> [st EXCEPT !.t = pv.t]]
        ELSE IF ~pv.ok \/ fbc_eval # pv.sum
        THEN [outcome |-> "false", st |-> [st EXCEPT !.t = t2]]
        ELSE [outcome |-> "continue",
              st |-> [layer_idx |-> st.layer_idx + 1, t |-> t2,
                      random_values |-> pv.challenges]]

\* an iteration of verify_proof from the result pv of partial_verify on: the
\* selectors are evaluated at the challenges it returned, whatever it found
GkrVerifierAfterSumcheck(layers, initial_inputs, gproof, st, sel, pv) ==
    IF \/ EvaluatePanics(sel.addi, pv.challenges)
       \/ EvaluatePanics(sel.muli, pv.challenges)
    THEN [outcome |-> "panic", st |-> [st EXCEPT !.t = pv.t]]
    ELSE GkrVerifierOracle(st, sel, pv,
             GkrNextWEvals(layers, initial_inputs, gproof, st.layer_idx, pv.challenges))

\* an iteration of verify_proof from the selectors on: the sum-check proof of
\* the layer is taken from the proof and partially verified
GkrVerifierSumcheck(salt, layers, initial_inputs, gproof, st, sel) ==
    IF sel.panicked THEN [outcome |-> "panic", st |-> st]
    ELSE IF st.layer_idx >= Len(gproof.sumcheck_proofs)
    THEN [outcome |-> "panic", st |-> st]
    ELSE GkrVerifierAfterSumcheck(layers, initial_inputs, gproof, st, sel,
             PartialVerify(salt, gproof.sumcheck_proofs[st.layer_idx + 1], sel.t))

\* One iteration of the loop of verify_proof: outcome "continue", or what
\* verify_proof ends with in this iteration ("false", "panic").
GkrVerifierLayer(salt, layers, initial_inputs, gproof, st) ==
    GkrVerifierSumcheck(salt, layers, initial_inputs, gproof, st,
                        GkrVerifierSelectors(salt, layers, st))

\* ------------------------------------------------------------------- state

VARIABLES
    salt,       \* which sponge function the transcripts use
    pc,         \* position of the run
    f,          \* the polynomial given to the sum-check prover and verifier
    prover,     \* generate_round_polys: polynomial, transcript, round_polys, challenges
    proof,      \* the SumCheckProof handed to the verifier
    tamper,     \* what was done to the honest proof on its way
    verifier,   \* partial_verify: ok, claimed sum, challenges, transcript
    round,      \* index of the next round polynomial of partial_verify
    result,     \* "none", or what verify_proof ended with: "true", "false", "panic"
    taus,       \* the secret of the trusted setup
    openings,   \* the point the polynomial is opened at
    polynomial, \* the polynomial committed to
    setup,      \* TrustedSetup: encrypted_taus, encrypted_lagrange_basis
    kzgProver,  \* generate_proof: commitment, v, dividend, idx, quotients
    kzgProof,   \* the MultilinearKZGProof handed to the verifier
    kzgTamper,  \* what was done to the honest KZG proof on its way
    kzgResult,  \* "none", or what the KZG verify_proof ended with
    circuit,    \* the layers of the circuit, the layer next to the inputs first
    inputs,     \* the inputs of the circuit
    gkrProver,  \* GKRProver::generate_proof: the state of its loop
    gkrProof,   \* the GKRProof handed to the verifier
    gkrTamper,  \* what was done to the honest GKR proof on its way
    gkrVerifier, \* GKRVerifier::verify_proof: the state of its loop
    gkrResult,  \* "none", or what the GKR run ended with: "true", "false", "panic"
    operations, \* the append / sample_challenge calls the transcripts are driven by
    transcripts, \* the Transcript instances: hasher, calls done, challenges returned
    call,       \* a call of a function of the polynomial or circuit crates: its arguments
    returned    \* what the call returned

scVars == <<f, prover, proof, tamper, verifier, round, result>>

kzgVars == <<taus, openings, polynomial, setup, kzgProver, kzgProof, kzgTamper, kzgResult>>

gkrVars == <<circuit, inputs, gkrProver, gkrProof, gkrTamper, gkrVerifier, gkrResult>>

\* the state outside the sum-check run, outside the KZG run, outside the GKR run
trVars == <<operations, transcripts>>

fnVars == <<call, returned>>

notSumcheck == <<kzgVars, gkrVars, trVars, fnVars>>

notKzg == <<scVars, gkrVars, trVars, fnVars>>

notGkr == <<scVars, kzgVars, trVars, fnVars>>

vars == <<salt, pc, scVars, kzgVars, gkrVars, trVars, fnVars>>

Salts == 0 .. MaxSalt

\* all multilinear polynomials of 1..MaxVars variables with evaluations in Vals
InputPolys == UNION {[1 .. Pow2(n) -> Vals] : n \in 0 .. MaxVars}

NoProof == [initial_claim_sum |-> 0, round_polys |-> <<>>]

IdleProver == [kind |-> "multi", poly |-> <<>>, t |-> <<>>, round_polys |-> <<>>,
               challenges |-> <<>>]

IdleVerifier == [ok |-> TRUE, done |-> FALSE, sum |-> 0, challenges |-> <<>>, t |-> <<>>]

NoTamper == [kind |-> "none", k |-> 0, c0 |-> 0, c1 |-> 0]

NoSetup == [encrypted_taus |-> <<>>, encrypted_lagrange_basis |-> <<>>]

IdleKzgProver == [panicked |-> FALSE, commitment |-> GZero("G1"), v |-> 0,
                  dividend |-> <<>>, idx |-> 0, quotients |-> <<>>]

NoKzgProof == [commitment |-> GZero("G1"), v |-> 0, q_taus |-> <<>>]

NoKzgTamper == [kind |-> "none", j |-> 0, d |-> 0]

SumcheckIdle ==
    /\ f = <<>>
    /\ prover = IdleProver
    /\ proof = NoProof
    /\ tamper = NoTamper
    /\ verifier = IdleVerifier
    /\ round = 0
    /\ result = "none"

IdleGkrProver == [panicked |-> FALSE, layer_idx |-> 0, t |-> <<>>, random_values |-> <<>>,
                  running_layer_polynomial |-> <<>>, w_polys_evals |-> <<>>,
                  sum_check_proofs |-> <<>>]

NoGkrProof == [output_poly |-> <<>>, w_polys_evals |-> <<>>, sumcheck_proofs |-> <<>>]

NoGkrTamper == [kind |-> "none", l |-> 0, k |-> 0, d |-> 0]

IdleGkrVerifier == [layer_idx |-> 0, t |-> <<>>, random_values |-> <<>>]

GkrIdle ==
    /\ circuit = <<>>
    /\ inputs = <<>>
    /\ gkrProver = IdleGkrProver
    /\ gkrProof = NoGkrProof
    /\ gkrTamper = NoGkrTamper
    /\ gkrVerifier = IdleGkrVerifier
    /\ gkrResult = "none"

TranscriptIdle ==
    /\ operations = <<>>
    /\ transcripts = <<>>

CallIdle ==
    /\ call = <<>>
    /\ returned = <<>>

KzgIdle ==
    /\ taus = <<>>
    /\ openings = <<>>
    /\ polynomial = <<>>
    /\ setup = NoSetup
    /\ kzgProver = IdleKzgProver
    /\ kzgProof = NoKzgProof
    /\ kzgTamper = NoKzgTamper
    /\ kzgResult = "none"

\* ------------------------------------------------- sum-check: specification

\* What may happen to a proof between prover and verifier.
\*   const:  the constant term of round k becomes c0
\*   shift:  round k becomes (a0 + c0, a1 - 2 c0): g(0) + g(1) is kept
\*   drop:   the last round is removed
\*   extra:  a round (c0, c1) is appended
\*   claim:  initial_claim_sum becomes c0
Tampers(pr) ==
    {NoTamper}
    \cup {[kind |-> "const", k |-> k, c0 |-> c, c1 |-> 0] :
            k \in 1 .. Len(pr.round_polys), c \in Field}
    \cup {[kind |-> "shift", k |-> k, c0 |-> c, c1 |-> 0] :
            k \in 1 .. Len(pr.round_polys), c \in Field \ {0}}
    \cup {[kind |-> "drop", k |-> 0, c0 |-> 0, c1 |-> 0]}
    \cup {[kind |-> "extra", k |-> 0, c0 |-> c0, c1 |-> c1] : c0 \in Field, c1 \in Field}
    \cup {[kind |-> "claim", k |-> 0, c0 |-> c, c1 |-> 0] : c \in Field}

ApplyTamper(pr, tm) ==
    LET rp == pr.round_polys
    IN  CASE tm.kind = "none" -> pr
          [] tm.kind = "const" ->
                [pr EXCEPT !.round_polys[tm.k] = <<tm.c0, rp[tm.k][2]>>]
          [] tm.kind = "shift" ->
                [pr EXCEPT !.round_polys[tm.k] =
                    <<FAdd(rp[tm.k][1], tm.c0), FSub(rp[tm.k][2], FMul(2, tm.c0))>>]
          [] tm.kind = "drop" ->
                [pr EXCEPT !.round_polys = SubSeq(rp, 1, Len(rp) - 1)]
          [] tm.kind = "extra" ->
                [pr EXCEPT !.round_polys = Append(rp, <<tm.c0, tm.c1>>)]
          [] tm.kind = "claim" ->
                [pr EXCEPT !.initial_claim_sum = tm.c0]

SCInit ==
    /\ salt \in Salts
    /\ pc = "generate"
    /\ f \in InputPolys
    /\ prover = IdleProver
    /\ proof = NoProof
    /\ tamper = NoTamper
    /\ verifier = IdleVerifier
    /\ round = 0
    /\ result = "none"
    /\ KzgIdle
    /\ GkrIdle
    /\ TranscriptIdle
    /\ CallIdle

\* generate_sumcheck_proof: a fresh transcript absorbs the polynomial
GenerateStart ==
    /\ pc = "generate"
    /\ prover' = [kind |-> "multi", poly |-> f,
                  t |-> TAppend(TranscriptNew, MlpToBytes(f)),
                  round_polys |-> <<>>, challenges |-> <<>>]
    /\ pc' = "rounds"
    /\ UNCHANGED <<salt, f, proof, tamper, verifier, round, result>>
    /\ UNCHANGED notSumcheck

\* one iteration of generate_round_polys
GenerateRound ==
    /\ pc = "rounds"
    /\ Len(prover.round_polys) < NumberOfVariables(f)
    /\ prover' = ProverRoundStep(salt, prover)
    /\ UNCHANGED <<salt, pc, f, proof, tamper, verifier, round, result>>
    /\ UNCHANGED notSumcheck

\* generate_sumcheck_proof returns the proof
GenerateFinish ==
    /\ pc = "rounds"
    /\ Len(prover.round_polys) = NumberOfVariables(f)
    /\ proof' = [initial_claim_sum |-> EvaluationSum(f), round_polys |-> prover.round_polys]
    /\ pc' = "proved"
    /\ UNCHANGED <<salt, f, prover, tamper, verifier, round, result>>
    /\ UNCHANGED notSumcheck

\* the proof reaches the verifier, as it is or changed
Deliver ==
    /\ pc = "proved"
    /\ \E tm \in Tampers(proof) :
          /\ tamper' = tm
          /\ proof' = ApplyTamper(proof, tm)
    /\ pc' = "verify"
    /\ UNCHANGED <<salt, f, prover, verifier, round, result>>
    /\ UNCHANGED notSumcheck

\* verify_proof up to the call of partial_verify
VerifyStart ==
    /\ pc = "verify"
    /\ LET t0 == TAppend(TranscriptNew, MlpToBytes(f))
       IN  IF ~InitialClaimMatches(f, proof)
           THEN /\ result' = "false"
                /\ pc' = "done"
                /\ verifier' = [IdleVerifier EXCEPT !.t = t0]
                /\ round' = round
           ELSE /\ verifier' = [ok |-> TRUE, done |-> FALSE,
                                sum |-> proof.initial_claim_sum,
                                challenges |-> <<>>, t |-> t0]
                /\ round' = 1
                /\ pc' = "partial"
                /\ result' = result
    /\ UNCHANGED <<salt, f, prover, proof, tamper>>
    /\ UNCHANGED notSumcheck

\* one iteration of partial_verify; a failing round makes verify_proof return false
PartialVerifyRound ==
    /\ pc = "partial"
    /\ round <= Len(proof.round_polys)
    /\ verifier' = PartialVerifyStep(salt, verifier, proof.round_polys[round])
    /\ IF verifier'.ok
       THEN /\ round' = round + 1
            /\ UNCHANGED <<pc, result>>
       ELSE /\ round' = round
            /\ pc' = "done"
            /\ result' = "false"
    /\ UNCHANGED <<salt, f, prover, proof, tamper>>
    /\ UNCHANGED notSumcheck

\* partial_verify returned true: the rest of verify_proof
OracleCheck ==
    /\ pc = "partial"
    /\ round > Len(proof.round_polys)
    /\ result' = VerifyProofOutcome(f, proof, verifier.challenges, verifier.sum)
    /\ pc' = "done"
    /\ UNCHANGED <<salt, f, prover, proof, tamper, verifier, round>>
    /\ UNCHANGED notSumcheck

SCNext ==
    \/ GenerateStart
    \/ GenerateRound
    \/ GenerateFinish
    \/ Deliver
    \/ VerifyStart
    \/ PartialVerifyRound
    \/ OracleCheck

SpecSumcheck == SCInit /\ [][SCNext]_vars

\* ------------------------------------------------------ sum-check: claims

\* Direct definitions used to state the claims: a polynomial at a point as the
\* sum of its monomials, and the multilinear extension as the sum over the
\* hypercube of evaluation times Lagrange weight (variable 0 is the most
\* significant bit of the index).
DirectUniAt(g, x) ==
    LET Mono(i) == (g[i] * Power(x, i - 1)) % FieldP
        RECURSIVE Acc(_)
        Acc(i) == IF i > Len(g) THEN 0 ELSE (Mono(i) + Acc(i + 1)) % FieldP
    IN  Acc(1)

BitOf(i, j, n) == (i \div Pow2(n - 1 - j)) % 2

DirectWeight(i, r) ==
    LET n == Len(r)
        RECURSIVE W(_)
        W(j) == IF j = n THEN 1
                ELSE ((IF BitOf(i, j, n) = 1 THEN r[j + 1] ELSE (1 + FieldP - r[j + 1]) % FieldP)
                      * W(j + 1)) % FieldP
    IN  W(0)

DirectMLE(e, r) ==
    LET RECURSIVE Acc(_)
        Acc(i) == IF i = Len(e) THEN 0
                  ELSE (e[i + 1] * DirectWeight(i, r) + Acc(i + 1)) % FieldP
    IN  Acc(0)

DirectSum(e) ==
    LET RECURSIVE Acc(_)
        Acc(i) == IF i > Len(e) THEN 0 ELSE (e[i] + Acc(i + 1)) % FieldP
    IN  Acc(1)

Values(options) == [i \in 1 .. Len(options) |-> options[i][1]]

\* The round chain as the claim words it, over the first m round polynomials.
RECURSIVE RoundChain(_, _, _, _, _, _)
RoundChain(polys, m, k, s, rs, t) ==
    IF k > m THEN [ok |-> TRUE, sum |-> s, challenges |-> rs, t |-> t]
    ELSE IF (DirectUniAt(polys[k], 0) + DirectUniAt(polys[k], 1)) % FieldP # s
    THEN [ok |-> FALSE, sum |-> s, challenges |-> rs, t |-> t]
    ELSE LET t1 == t \o FieldToBytes(s) \o FlatBytes(polys[k])
             digest == Finalize(salt, t1)
             r == FromBytesLE(digest) % FieldP
         IN  RoundChain(polys, m, k + 1, DirectUniAt(polys[k], r),
                        Append(rs, <<r>>), t1 \o digest)

\* how many round polynomials partial_verify has handled
RoundsHandled == IF verifier.ok THEN round - 1 ELSE round

PartialVerifyEntered == pc \in {"partial", "done"} /\ round >= 1

HonestRun == tamper.kind = "none"

\* C2: sum-check completeness: the verifier accepts the proof the prover made of
\* any multilinear polynomial with at least one variable.
C2_SumcheckCompleteness ==
    (pc = "done" /\ HonestRun /\ NumberOfVariables(f) >= 1) => result = "true"

C2_Witness ==
    pc = "done" /\ HonestRun /\ result = "true" /\ NumberOfVariables(f) = 2
    /\ \E i \in 1 .. Len(f) : f[i] # 0

\* C4: the sum-check verifier returns true or false on every proof and never
\* panics; a proof whose rounds all pass but whose round count is not the
\* number of variables is rejected with false.
C4_VerifierNeverRaises ==
    pc = "done" =>
        /\ result \in {"true", "false"}
        /\ (verifier.ok /\ PartialVerifyEntered
            /\ Len(proof.round_polys) # NumberOfVariables(f)) => result = "false"

\* C5: partial_verify follows the round chain: it stops at the first round whose
\* g(0) + g(1) is not the current claim, returning (false, claim, challenges so
\* far); a passing round absorbs the claim then the polynomial, squeezes r, and
\* the claim becomes g(r); after all rounds it returns (true, g_m(r_m), r_1..r_m).
C5_PartialVerifyRoundChain ==
    PartialVerifyEntered =>
        LET chain == RoundChain(proof.round_polys, RoundsHandled, 1,
                                proof.initial_claim_sum, <<>>, FlatBytes(f))
        IN  /\ verifier.ok = chain.ok
            /\ verifier.sum = chain.sum
            /\ verifier.challenges = chain.challenges
            /\ verifier.t = chain.t
            /\ Len(verifier.challenges) = round - 1

C5_Witness ==
    /\ pc = "done" /\ PartialVerifyEntered
    /\ ~verifier.ok /\ round = 2 /\ Len(verifier.challenges) = 1
    /\ verifier.sum = DirectUniAt(proof.round_polys[1], verifier.challenges[1][1])

\* C6: replacing the constant term of any round polynomial of an honest proof by
\* a different field element makes verify_proof return false.
ConstantTampered ==
    tamper.kind = "const" /\ tamper.c0 # prover.round_polys[tamper.k][1]

C6_TamperRejected ==
    (pc = "done" /\ ConstantTampered) => result = "false"

C6_Witness ==
    /\ pc = "done" /\ ConstantTampered /\ result = "false"
    /\ NumberOfVariables(f) = 2 /\ tamper.k = 2

\* C7: verify_proof returns true only if the initial claim is the sum of the
\* evaluations, every round passes g_k(0) + g_k(1) = previous claim, and the
\* polynomial at the squeezed challenges equals the final claim g_n(r_n).
C7_AcceptsOnlyConsistent ==
    result = "true" =>
        LET polys == proof.round_polys
            n == Len(polys)
            rs == Values(verifier.challenges)
            ClaimBefore(k) == IF k = 1 THEN proof.initial_claim_sum
                              ELSE DirectUniAt(polys[k - 1], rs[k - 1])
        IN  /\ proof.initial_claim_sum = DirectSum(f)
            /\ n = NumberOfVariables(f) /\ n >= 1
            /\ Len(rs) = n
            /\ \A k \in 1 .. n :
                  (DirectUniAt(polys[k], 0) + DirectUniAt(polys[k], 1)) % FieldP = ClaimBefore(k)
            /\ DirectMLE(f, rs) = DirectUniAt(polys[n], rs[n])

C7_Witness ==
    /\ result = "true" /\ NumberOfVariables(f) = 2
    /\ Len(verifier.challenges) = 2 /\ DirectSum(f) # 0

\* ------------------------------------------------------ KZG: specification

\* all multilinear polynomials of 0..MaxVars variables with evaluations in Vals
KzgPolys == UNION {[1 .. Pow2(n) -> Vals] : n \in 0 .. MaxVars}

\* What may happen to a KZG proof between prover and verifier: v, the
\* commitment or the quotient commitment j is moved by d # 0.
KzgTampers(kproof) ==
    {NoKzgTamper}
    \cup {[kind |-> "v", j |-> 0, d |-> d] : d \in Field \ {0}}
    \cup {[kind |-> "commitment", j |-> 0, d |-> d] : d \in Field \ {0}}
    \cup {[kind |-> "q", j |-> j, d |-> d] :
            j \in 1 .. Len(kproof.q_taus), d \in Field \ {0}}

ApplyKzgTamper(kproof, tm) ==
    CASE tm.kind = "none" -> kproof
      [] tm.kind = "v" -> [kproof EXCEPT !.v = FAdd(kproof.v, tm.d)]
      [] tm.kind = "commitment" ->
            [kproof EXCEPT !.commitment = GAdd(kproof.commitment, MulBigint(G1Generator, tm.d))]
      [] tm.kind = "q" ->
            [kproof EXCEPT !.q_taus[tm.j] =
                GAdd(kproof.q_taus[tm.j], MulBigint(G1Generator, tm.d))]

KZGInit ==
    /\ salt = 0
    /\ pc = "setup"
    /\ polynomial \in KzgPolys
    /\ taus \in [1 .. NumberOfVariables(polynomial) -> Field]
    /\ openings \in [1 .. NumberOfVariables(polynomial) -> Vals]
    /\ setup = NoSetup
    /\ kzgProver = IdleKzgProver
    /\ kzgProof = NoKzgProof
    /\ kzgTamper = NoKzgTamper
    /\ kzgResult = "none"
    /\ SumcheckIdle
    /\ GkrIdle
    /\ TranscriptIdle
    /\ CallIdle

\* TrustedSetup::new(taus)
KzgSetup ==
    /\ pc = "setup"
    /\ setup' = TrustedSetupNew(taus)
    /\ pc' = "prove"
    /\ UNCHANGED <<salt, taus, openings, polynomial, kzgProver, kzgProof, kzgTamper, kzgResult>>
    /\ UNCHANGED notKzg

\* generate_proof up to its loop
KzgGenerateStart ==
    /\ pc = "prove"
    /\ kzgProver' = KzgProofStart(openings, setup.encrypted_lagrange_basis, polynomial)
    /\ pc' = "quotients"
    /\ UNCHANGED <<salt, taus, openings, polynomial, setup, kzgProof, kzgTamper, kzgResult>>
    /\ UNCHANGED notKzg

\* one iteration of the loop of generate_proof
KzgQuotientRound ==
    /\ pc = "quotients"
    /\ ~kzgProver.panicked
    /\ kzgProver.idx < Len(openings)
    /\ kzgProver' = KzgQuotientStep(kzgProver, openings, setup.encrypted_lagrange_basis)
    /\ UNCHANGED <<salt, pc, taus, openings, polynomial, setup, kzgProof, kzgTamper, kzgResult>>
    /\ UNCHANGED notKzg

\* generate_proof returns the proof
KzgGenerateFinish ==
    /\ pc = "quotients"
    /\ ~kzgProver.panicked
    /\ kzgProver.idx = Len(openings)
    /\ kzgProof' = [commitment |-> kzgProver.commitment, v |-> kzgProver.v,
                    q_taus |-> kzgProver.quotients]
    /\ pc' = "proved"
    /\ UNCHANGED <<salt, taus, openings, polynomial, setup, kzgProver, kzgTamper, kzgResult>>
    /\ UNCHANGED notKzg

\* the proof reaches the verifier, as it is or changed
KzgDeliver ==
    /\ pc = "proved"
    /\ \E tm \in KzgTampers(kzgProof) :
          /\ kzgTamper' = tm
          /\ kzgProof' = ApplyKzgTamper(kzgProof, tm)
    /\ pc' = "verify"
    /\ UNCHANGED <<salt, taus, openings, polynomial, setup, kzgProver, kzgResult>>
    /\ UNCHANGED notKzg

\* MultilinearKZGVerifier::verify_proof
KzgVerify ==
    /\ pc = "verify"
    /\ kzgResult' = KzgVerifyProof(kzgProof, openings, setup.encrypted_taus)
    /\ pc' = "done"
    /\ UNCHANGED <<salt, taus, openings, polynomial, setup, kzgProver, kzgProof, kzgTamper>>
    /\ UNCHANGED notKzg

KZGNext ==
    \/ KzgSetup
    \/ KzgGenerateStart
    \/ KzgQuotientRound
    \/ KzgGenerateFinish
    \/ KzgDeliver
    \/ KzgVerify

SpecKZG == KZGInit /\ [][KZGNext]_vars

\* ------------------------------------------------------------- KZG: claims

\* sum over j of (tau_j - a_j) * q_j, on exponents
RECURSIVE DirectQuotientSum(_, _, _, _)
DirectQuotientSum(ts, as, qs, j) ==
    IF j > Len(qs) THEN 0
    ELSE (((ts[j] - as[j] + FieldP) * qs[j].e) + DirectQuotientSum(ts, as, qs, j + 1)) % FieldP

KzgProved == pc \in {"proved", "verify", "done"}

\* C8: for n >= 1 the honest KZG proof is produced without failure, satisfies
\* f(tau) - v = sum_j (tau_j - a_j) * q_j(tau) on exponents, with v = f(a), and
\* is accepted by verify_proof with the same openings and the encrypted taus.
C8_KzgRoundTrip ==
    /\ Len(taus) >= 1 => ~kzgProver.panicked
    /\ (Len(taus) >= 1 /\ KzgProved /\ kzgTamper.kind = "none") =>
          /\ Len(kzgProof.q_taus) = Len(taus)
          /\ kzgProof.v = DirectMLE(polynomial, openings)
          /\ (DirectMLE(polynomial, taus) - kzgProof.v + FieldP) % FieldP
                = DirectQuotientSum(taus, openings, kzgProof.q_taus, 1)
    /\ (Len(taus) >= 1 /\ pc = "done" /\ kzgTamper.kind = "none") => kzgResult = "true"

C8_Witness ==
    /\ pc = "done" /\ kzgTamper.kind = "none" /\ kzgResult = "true"
    /\ Len(taus) = 2 /\ taus[1] \notin {0, 1} /\ taus[2] \notin {0, 1}
    /\ \E j \in 1 .. 2 : kzgProof.q_taus[j].e # 0
    /\ kzgProof.v # 0

\* C9: an honest KZG proof whose v or commitment was replaced by a different
\* element is rejected; one whose quotient commitment j was replaced is
\* rejected whenever tau_j # a_j.
C9_KzgTamperRejected ==
    pc = "done" =>
        /\ kzgTamper.kind \in {"v", "commitment"} => kzgResult = "false"
        /\ (kzgTamper.kind = "q" /\ taus[kzgTamper.j] # openings[kzgTamper.j])
              => kzgResult = "false"

C9_Witness ==
    /\ pc = "done" /\ kzgTamper.kind = "q" /\ kzgTamper.j = 2
    /\ taus[2] # openings[2] /\ kzgResult = "false"

\* C10: the commitment is the G1 generator scaled by f(tau), the multilinear
\* extension of f at tau with tau_1 bound to the most significant index bit.
C10_CommitmentValue ==
    pc \in {"quotients", "proved"} =>
        kzgProver.commitment = [grp |-> "G1", e |-> DirectMLE(polynomial, taus)]

C10_Witness ==
    /\ pc = "quotients" /\ Len(taus) = 2
    /\ taus[1] # taus[2] /\ taus[1] \notin {0, 1} /\ taus[2] \notin {0, 1}
    /\ polynomial[2] # polynomial[3]
    /\ kzgProver.commitment.e # 0

\* ------------------------------------------------------ GKR: specification

Gates == {Gate(left, right, operation) :
            left \in 0 .. MaxWire, right \in 0 .. MaxWire, operation \in {"Add", "Mul"}}

GateLayers == UNION {[1 .. g -> Gates] : g \in 1 .. MaxGates}

\* the inputs: as many as the wires a gate may read, a power of two, at least 2
InputLength == Max(NextPowerOfTwo(MaxWire + 1), 2)

GkrInputs == [1 .. InputLength -> Vals]

\* the circuits of 1..MaxLayers layers whose gates read wires that exist
Circuits ==
    {c \in UNION {[1 .. d -> GateLayers] : d \in 1 .. MaxLayers} :
        ~EvaluateAtInputPanicsFrom(c, 1, InputLength)}

\* What may happen to a GKR proof between prover and verifier.
\*   round:     the constant term of round k of the sum-check of layer l moves by d
\*   claim:     the initial claim of the sum-check of layer l moves by d
\*   eval:      the first of the evaluations of W sent for layer l moves by d
\*   dropProof: the last sum-check proof is removed
\*   dropEval:  the last pair of evaluations of W is removed
GkrTampers(gproof) ==
    {NoGkrTamper}
    \cup {[kind |-> "round", l |-> l, k |-> k, d |-> d] :
            l \in 1 .. Len(gproof.sumcheck_proofs), k \in 1 .. 2, d \in 1 .. MaxVal}
    \cup {[kind |-> "claim", l |-> l, k |-> 0, d |-> d] :
            l \in 1 .. Len(gproof.sumcheck_proofs), d \in 1 .. MaxVal}
    \cup {[kind |-> "eval", l |-> l, k |-> 0, d |-> d] :
            l \in 1 .. Len(gproof.w_polys_evals), d \in 1 .. MaxVal}
    \cup {[kind |-> "dropProof", l |-> 0, k |-> 0, d |-> 0]}
    \cup {[kind |-> "dropEval", l |-> 0, k |-> 0, d |-> 0] : x \in 1 .. Len(gproof.w_polys_evals)}

ApplyGkrTamper(gproof, tm) ==
    LET sps == gproof.sumcheck_proofs
        evs == gproof.w_polys_evals
    IN  CASE tm.kind = "none" -> gproof
          [] tm.kind = "round" ->
                [gproof EXCEPT !.sumcheck_proofs[tm.l].round_polys[tm.k][1] =
                    FAdd(sps[tm.l].round_polys[tm.k][1], tm.d)]
          [] tm.kind = "claim" ->
                [gproof EXCEPT !.sumcheck_proofs[tm.l].initial_claim_sum =
                    FAdd(sps[tm.l].initial_claim_sum, tm.d)]
          [] tm.kind = "eval" ->
                [gproof EXCEPT !.w_polys_evals[tm.l][1] = FAdd(evs[tm.l][1], tm.d)]
          [] tm.kind = "dropProof" ->
                [gproof EXCEPT !.sumcheck_proofs = SubSeq(sps, 1, Len(sps) - 1)]
          [] tm.kind = "dropEval" ->
                [gproof EXCEPT !.w_polys_evals = SubSeq(evs, 1, Len(evs) - 1)]

GKRInit ==
    /\ salt \in Salts
    /\ pc = "generate"
    /\ circuit \in Circuits
    /\ inputs \in GkrInputs
    /\ gkrProver = IdleGkrProver
    /\ gkrProof = NoGkrProof
    /\ gkrTamper = NoGkrTamper
    /\ gkrVerifier = IdleGkrVerifier
    /\ gkrResult = "none"
    /\ SumcheckIdle
    /\ KzgIdle
    /\ TranscriptIdle
    /\ CallIdle

\* generate_proof up to its loop
GkrGenerateStart ==
    /\ pc = "generate"
    /\ gkrProver' = GkrProverStart(salt, circuit, inputs)
    /\ pc' = "layers"
    /\ UNCHANGED <<salt, circuit, inputs, gkrProof, gkrTamper, gkrVerifier, gkrResult>>
    /\ UNCHANGED notGkr

\* one iteration of the loop of generate_proof; a panic ends the run
GkrGenerateLayer ==
    /\ pc = "layers"
    /\ gkrProver.layer_idx < GetLayerCount(circuit)
    /\ gkrProver' = GkrProverLayer(salt, circuit, inputs, gkrProver)
    /\ IF gkrProver'.panicked
       THEN /\ pc' = "done"
            /\ gkrResult' = "panic"
       ELSE UNCHANGED <<pc, gkrResult>>
    /\ UNCHANGED <<salt, circuit, inputs, gkrProof, gkrTamper, gkrVerifier>>
    /\ UNCHANGED notGkr

\* generate_proof returns the proof
GkrGenerateFinish ==
    /\ pc = "layers"
    /\ gkrProver.layer_idx = GetLayerCount(circuit)
    /\ gkrProof' = [output_poly |-> GetWI(0, EvaluateAtInput(circuit, inputs)),
                    w_polys_evals |-> gkrProver.w_polys_evals,
                    sumcheck_proofs |-> gkrProver.sum_check_proofs]
    /\ pc' = "proved"
    /\ UNCHANGED <<salt, circuit, inputs, gkrProver, gkrTamper, gkrVerifier, gkrResult>>
    /\ UNCHANGED notGkr

\* the proof reaches the verifier, as it is or changed
GkrDeliver ==
    /\ pc = "proved"
    /\ \E tm \in GkrTampers(gkrProof) :
          /\ gkrTamper' = tm
          /\ gkrProof' = ApplyGkrTamper(gkrProof, tm)
    /\ pc' = "verify"
    /\ UNCHANGED <<salt, circuit, inputs, gkrProver, gkrVerifier, gkrResult>>
    /\ UNCHANGED notGkr

\* verify_proof up to its loop
GkrVerifyStart ==
    /\ pc = "verify"
    /\ gkrVerifier' = GkrVerifierStart(salt, gkrProof)
    /\ pc' = "verifying"
    /\ UNCHANGED <<salt, circuit, inputs, gkrProver, gkrProof, gkrTamper, gkrResult>>
    /\ UNCHANGED notGkr

\* one iteration of the loop of verify_proof
GkrVerifyLayer ==
    /\ pc = "verifying"
    /\ gkrVerifier.layer_idx < GetLayerCount(circuit)
    /\ LET r == GkrVerifierLayer(salt, circuit, inputs, gkrProof, gkrVerifier)
       IN  /\ gkrVerifier' = r.st
           /\ IF r.outcome = "continue"
              THEN UNCHANGED <<pc, gkrResult>>
              ELSE /\ pc' = "done"
                   /\ gkrResult' = r.outcome
    /\ UNCHANGED <<salt, circuit, inputs, gkrProver, gkrProof, gkrTamper>>
    /\ UNCHANGED notGkr

\* every layer passed: verify_proof returns true
GkrVerifyFinish ==
    /\ pc = "verifying"
    /\ gkrVerifier.layer_idx = GetLayerCount(circuit)
    /\ gkrResult' = "true"
    /\ pc' = "done"
    /\ UNCHANGED <<salt, circuit, inputs, gkrProver, gkrProof, gkrTamper, gkrVerifier>>
    /\ UNCHANGED notGkr

GKRNext ==
    \/ GkrGenerateStart
    \/ GkrGenerateLayer
    \/ GkrGenerateFinish
    \/ GkrDeliver
    \/ GkrVerifyStart
    \/ GkrVerifyLayer
    \/ GkrVerifyFinish

SpecGKR == GKRInit /\ [][GKRNext]_vars

\* ------------------------------------------------------------- GKR: claims

\* every layer reads the last wire of the layer below it, so that the width
\* get_gate_poly derives is the width of that layer
RECURSIVE ReadsWholeWidth(_, _, _)
ReadsWholeWidth(c, k, width) ==
    IF k > Len(c) THEN TRUE
    ELSE /\ \E i \in 1 .. Len(c[k]) : 2 * (c[k][i].left + 1) > width
                                      \/ 2 * (c[k][i].right + 1) > width
         /\ ReadsWholeWidth(c, k + 1, IF Len(c[k]) <= 2 THEN 2 ELSE 2 * Pow2(ILog2(Len(c[k]) - 1)))

\* Where the width get_gate_poly derives is the width of the layer below, the
\* honest run does not fail and is accepted.
GkrCompleteWhenWholeWidthRead ==
    (ReadsWholeWidth(circuit, 1, InputLength) /\ gkrTamper.kind = "none") =>
        /\ ~gkrProver.panicked
        /\ pc = "done" => gkrResult = "true"

\* C1: for every circuit with gate indices in range and padded layers, and
\* every input vector, the honest GKR run ends with verify_proof returning
\* true: the prover does not fail and the verifier accepts.
C1_GkrCompleteness ==
    /\ ~gkrProver.panicked
    /\ (pc = "done" /\ gkrTamper.kind = "none") => gkrResult = "true"

\* C3: verify_proof of GKR ends by returning true or false for every proof it
\* is given, and never panics.
C3_GkrVerifierNeverRaises ==
    ~gkrProver.panicked => gkrResult # "panic"

\* ---------------------------------------------------------------------------
\* Transcript instances driven by a sequence of calls
\* (src/fiat_shamir/src/transcript.rs)
\* ---------------------------------------------------------------------------

\* longest operation sequence the transcripts are driven by
MaxOps == 3

\* longest byte string one append is given
MaxDataLen == 2

\* largest n of one sample_n_challenges call
MaxSqueeze == 2

Min(a, b) == IF a <= b THEN a ELSE b

\* the byte strings append is called with
AppendData == UNION {[1 .. n -> {0, ByteBase - 1}] : n \in 0 .. MaxDataLen}

\* the calls of the public interface of Transcript
Operations ==
    {[kind |-> "append", data |-> d, n |-> 0] : d \in AppendData}
    \cup {[kind |-> "sample_challenge", data |-> <<>>, n |-> 1]}
    \cup {[kind |-> "sample_n_challenges", data |-> <<>>, n |-> n] : n \in 0 .. MaxSqueeze}

OperationSequences == UNION {[1 .. n -> Operations] : n \in 0 .. MaxOps}

\* a hasher that is one state for every instance, instead of a field of each
HasherOfFirst(trs, i) == trs[1].hasher

\* self.hasher: the hasher an instance owns
HasherOf(trs, i) == trs[i].hasher

\* Transcript::new(): a fresh hasher, no call made
NewTranscript == [hasher |-> TranscriptNew, after |-> <<>>, challenges |-> <<>>]

\* the instance after a call that left the hasher at t and returned cs
Performed(tr, t, cs) ==
    [hasher |-> t, after |-> Append(tr.after, t), challenges |-> Append(tr.challenges, cs)]

\* the calls an instance has made
Done(tr) == Len(tr.challenges)

TRInit ==
    /\ salt \in Salts
    /\ pc = "transcript"
    /\ operations \in OperationSequences
    /\ transcripts = <<NewTranscript, NewTranscript>>
    /\ SumcheckIdle
    /\ KzgIdle
    /\ GkrIdle
    /\ CallIdle

notTranscript == <<scVars, kzgVars, gkrVars, fnVars>>

\* the next call of instance i is one of the given kind
NextIs(i, kind) ==
    /\ pc = "transcript"
    /\ Done(transcripts[i]) < Len(operations)
    /\ operations[Done(transcripts[i]) + 1].kind = kind

TrAppendCall(i) ==
    /\ NextIs(i, "append")
    /\ transcripts' = [transcripts EXCEPT ![i] =
           Performed(@, TAppend(HasherOf(transcripts, i), operations[Done(@) + 1].data), <<>>)]
    /\ UNCHANGED <<salt, pc, operations, notTranscript>>

TrSampleChallengeCall(i) ==
    /\ NextIs(i, "sample_challenge")
    /\ LET r == SampleChallenge(salt, HasherOf(transcripts, i))
       IN transcripts' = [transcripts EXCEPT ![i] = Performed(@, r.t, <<r.c>>)]
    /\ UNCHANGED <<salt, pc, operations, notTranscript>>

TrSampleNChallengesCall(i) ==
    /\ NextIs(i, "sample_n_challenges")
    /\ LET r == SampleNChallenges(salt, HasherOf(transcripts, i), operations[Done(transcripts[i]) + 1].n)
       IN transcripts' = [transcripts EXCEPT ![i] = Performed(@, r.t, r.cs)]
    /\ UNCHANGED <<salt, pc, operations, notTranscript>>

TRNext ==
    \/ \E i \in 1 .. 2 : TrAppendCall(i)
    \/ \E i \in 1 .. 2 : TrSampleChallengeCall(i)
    \/ \E i \in 1 .. 2 : TrSampleNChallengesCall(i)

SpecTranscript == TRInit /\ [][TRNext]_vars

RECURSIVE SqueezeStream(_, _, _)
SqueezeStream(s, bytes, k) ==
    IF k = 0 THEN bytes
    ELSE SqueezeStream(s, bytes, k - 1) \o Finalize(s, SqueezeStream(s, bytes, k - 1))

\* the challenges of k squeezes that follow the stream bytes
SqueezeChallenges(s, bytes, k) ==
    [j \in 1 .. k |-> FromLeBytesModOrder(Finalize(s, SqueezeStream(s, bytes, j - 1)))]

\* n successive sample_challenge calls: the hasher they leave, what they return
RECURSIVE SuccessiveSamples(_, _, _)
SuccessiveSamples(s, t, n) ==
    IF n = 0 THEN [t |-> t, cs |-> <<>>]
    ELSE LET first == SuccessiveSamples(s, t, n - 1)
         IN [t |-> first.t \o Finalize(s, first.t),
             cs |-> Append(first.cs, FromLeBytesModOrder(Finalize(s, first.t)))]

\* the hasher of an instance after its first a calls
HasherAfter(tr, a) == IF a = 0 THEN TranscriptNew ELSE tr.after[a]

\* calls a + 1 .. b are squeezes
RECURSIVE OnlySqueezes(_, _)
OnlySqueezes(a, b) ==
    a >= b \/ (operations[b].kind # "append" /\ OnlySqueezes(a, b - 1))

\* the squeezes calls a + 1 .. b make
RECURSIVE SqueezeCount(_, _)
SqueezeCount(a, b) == IF a >= b THEN 0 ELSE SqueezeCount(a, b - 1) + operations[b].n

\* what calls a + 1 .. b of an instance returned, in order
RECURSIVE ReturnedBy(_, _, _)
ReturnedBy(tr, a, b) == IF a >= b THEN <<>> ELSE ReturnedBy(tr, a, b - 1) \o tr.challenges[b]

\* C12: after k squeezes with no append in between, the hasher has absorbed
\* the bytes it held before them followed by the k digests in order, each
\* digest is taken over a stream longer than the one before, the challenges
\* returned are the field elements of those digests, and
\* sample_n_challenges(n) leaves and returns what n successive
\* sample_challenge calls do.
C12_SqueezeReabsorbs ==
    pc = "transcript" =>
        \A i \in 1 .. 2 : \A b \in 1 .. Done(transcripts[i]) : \A a \in 0 .. b - 1 :
            OnlySqueezes(a, b) =>
                LET tr == transcripts[i]
                    before == HasherAfter(tr, a)
                    k == SqueezeCount(a, b)
                IN /\ tr.after[b] = SqueezeStream(salt, before, k)
                   /\ ReturnedBy(tr, a, b) = SqueezeChallenges(salt, before, k)
                   /\ \A j \in 1 .. k :
                          Len(SqueezeStream(salt, before, j)) > Len(SqueezeStream(salt, before, j - 1))
                   /\ tr.after[b] = SuccessiveSamples(salt, HasherAfter(tr, b - 1), operations[b].n).t
                   /\ tr.challenges[b] = SuccessiveSamples(salt, HasherAfter(tr, b - 1), operations[b].n).cs

\* an instance has absorbed bytes and then squeezed three times in two calls,
\* the last a sample_n_challenges, and the challenges are not all the same
C12_Witness ==
    /\ pc = "transcript"
    /\ Len(operations) = MaxOps
    /\ operations[1].kind = "append" /\ Len(operations[1].data) = MaxDataLen
    /\ operations[2].kind = "sample_challenge"
    /\ operations[3].kind = "sample_n_challenges" /\ operations[3].n = MaxSqueeze
    /\ Done(transcripts[2]) = MaxOps
    /\ Len(transcripts[2].hasher) = MaxDataLen + 3 * ByteLen
    /\ transcripts[2].challenges[3][1] # transcripts[2].challenges[3][2]

\* ---------------------------------------------------------------------------
\* The transcripts of the two parties of a GKR run
\* ---------------------------------------------------------------------------

\* generate_proof after k iterations of its loop
RECURSIVE GkrProverAt(_, _, _, _)
GkrProverAt(s, layers, ins, k) ==
    IF k = 0 THEN GkrProverStart(s, layers, ins)
    ELSE GkrProverLayer(s, layers, ins, GkrProverAt(s, layers, ins, k - 1))

\* the bytes of the two evaluations of the input polynomial at the halves of
\* the last random values
InputLayerEvaluations(ins, random_values) ==
    LET half == Len(random_values) \div 2
    IN  FieldToBytes(Evaluate(ins, SubSeq(random_values, 1, half))[1])
        \o FieldToBytes(Evaluate(ins, SubSeq(random_values, half + 1, Len(random_values)))[1])

\* an honest run whose prover returned a proof and whose verifier has begun
\* and has not stopped early
HonestGkrVerifying ==
    /\ gkrTamper.kind = "none"
    /\ ~gkrProver.panicked
    /\ pc \in {"verifying", "done"}
    /\ gkrResult \in {"none", "true"}

\* C13: in an honest run the verifier entering layer k holds the random values
\* the prover held entering layer k, and has absorbed and squeezed what the
\* prover had, the evaluations the prover absorbs first in that layer
\* included; alpha and beta are drawn from equal transcripts; after the last
\* layer the verifier's transcript is the prover's followed by the
\* evaluations of the input layer alone.
C13_GkrTranscriptOrdering ==
    HonestGkrVerifying =>
        LET k == gkrVerifier.layer_idx
            p == GkrProverAt(salt, circuit, inputs, k)
        IN  /\ ~p.panicked
            /\ gkrVerifier.random_values = p.random_values
            /\ IF k = 0 THEN gkrVerifier.t = p.t
               ELSE IF k < GetLayerCount(circuit)
               THEN /\ gkrVerifier.t = TAppendN(p.t, <<FieldToBytes(gkrProver.w_polys_evals[k][1]),
                                                       FieldToBytes(gkrProver.w_polys_evals[k][2])>>)
                    /\ GkrVerifierSelectors(salt, circuit, gkrVerifier).t
                           = GkrProverClaim(salt, circuit, p).t
               ELSE /\ p = gkrProver
                    /\ gkrVerifier.t = TAppend(gkrProver.t,
                                               InputLayerEvaluations(inputs, gkrVerifier.random_values))

\* the verifier of an honest run is between the two layers of a circuit
C13_Witness ==
    /\ HonestGkrVerifying
    /\ pc = "verifying"
    /\ GetLayerCount(circuit) = 2
    /\ gkrVerifier.layer_idx = 1
    /\ \E i \in 1 .. Len(gkrVerifier.random_values) : gkrVerifier.random_values[i] # Some(0)

\* an honest run whose prover returns a proof is not stopped early by the verifier
HonestGkrRunsToTheEnd ==
    (gkrTamper.kind = "none" /\ ~gkrProver.panicked) => gkrResult \in {"none", "true"}

\* ---------------------------------------------------------------------------
\* Calls of the polynomial crate
\* (src/polynomials/src/multilinear_polynomial/evaluation_form.rs,
\*  src/polynomials/src/univariate_polynomial/dense_coefficient_form.rs)
\* ---------------------------------------------------------------------------

\* most variables of a multilinear polynomial a call is made on
MaxCallVars == 3

\* largest evaluation of a multilinear polynomial a call is made on
MaxCallVal == 1

\* most points interpolate is given
MaxPoints == 3

CallPolys(n) == [1 .. Pow2(n) -> 0 .. MaxCallVal]

\* a slot of the points of evaluate: None, or Some value of the field
Slots == {None} \cup {Some(v) : v \in Field}

EvaluateCalls ==
    UNION {[fn : {"evaluate"}, self : CallPolys(n), points : [1 .. m -> Slots]] :
              n \in 0 .. MaxCallVars, m \in 0 .. MaxCallVars}

PartiallyEvaluateCalls ==
    UNION {[fn : {"partially_evaluate"}, self : CallPolys(n), variable_idx : 0 .. n - 1,
            value : Field] : n \in 1 .. MaxCallVars}

TensorCalls ==
    UNION {[fn : {"w_add", "w_mul"}, a : [1 .. Pow2(n) -> Vals], b : [1 .. Pow2(m) -> Vals]] :
              n \in 0 .. MaxVars, m \in 0 .. MaxVars}

InterpolateCalls ==
    UNION {[fn : {"interpolate"}, x_points : [1 .. n -> Field], y_points : [1 .. n -> Field]] :
              n \in 1 .. MaxPoints}

\* most coefficients of a univariate polynomial a call is made on
MaxCoefficients == 3

UniPolys == UNION {[1 .. n -> Field] : n \in 1 .. MaxCoefficients}

UniAddCalls == [fn : {"_add"}, self : UniPolys, p2 : UniPolys]

QuotientRemainderCalls ==
    UNION {[fn : {"compute_quotient_remainder"}, self : CallPolys(n), divisor : Field,
            variable_index : 0 .. n - 1] : n \in 1 .. MaxCallVars}

\* the call panicked
Panicked == [panicked |-> TRUE, value |-> <<>>]

\* the call returned v
Returned(v) == [panicked |-> FALSE, value |-> v]

POLYInit ==
    /\ salt = 0
    /\ pc = "call"
    /\ \/ call \in EvaluateCalls
       \/ call \in PartiallyEvaluateCalls
       \/ call \in TensorCalls
       \/ call \in InterpolateCalls
       \/ call \in QuotientRemainderCalls
       \/ call \in UniAddCalls
    /\ returned = <<>>
    /\ SumcheckIdle
    /\ KzgIdle
    /\ GkrIdle
    /\ TranscriptIdle

notCall == <<scVars, kzgVars, gkrVars, trVars>>

CallEvaluate ==
    /\ pc = "call"
    /\ call.fn = "evaluate"
    /\ returned' = IF EvaluatePanics(call.self, call.points) THEN Panicked
                   ELSE Returned(Evaluate(call.self, call.points))
    /\ pc' = "returned"
    /\ UNCHANGED <<salt, call, notCall>>

CallPartiallyEvaluate ==
    /\ pc = "call"
    /\ call.fn = "partially_evaluate"
    /\ returned' = Returned(PartiallyEvaluate(call.self, call.variable_idx, call.value))
    /\ pc' = "returned"
    /\ UNCHANGED <<salt, call, notCall>>

CallWAdd ==
    /\ pc = "call"
    /\ call.fn = "w_add"
    /\ returned' = IF OperateWPanics(call.a, call.b) THEN Panicked
                   ELSE Returned(WAdd(call.a, call.b))
    /\ pc' = "returned"
    /\ UNCHANGED <<salt, call, notCall>>

\* a.w_mul(b) is operate_w(b, a, Mul)
CallWMul ==
    /\ pc = "call"
    /\ call.fn = "w_mul"
    /\ returned' = IF OperateWPanics(call.b, call.a) THEN Panicked
                   ELSE Returned(WMul(call.a, call.b))
    /\ pc' = "returned"
    /\ UNCHANGED <<salt, call, notCall>>

CallInterpolate ==
    /\ pc = "call"
    /\ call.fn = "interpolate"
    /\ returned' = IF InterpolatePanics(call.x_points, call.y_points) THEN Panicked
                   ELSE Returned(Interpolate(call.x_points, call.y_points))
    /\ pc' = "returned"
    /\ UNCHANGED <<salt, call, notCall>>

CallComputeQuotientRemainder ==
    /\ pc = "call"
    /\ call.fn = "compute_quotient_remainder"
    /\ returned' = Returned([quotient |-> ComputeQuotient(call.self, call.variable_index),
                             remainder |-> PartiallyEvaluate(call.self, call.variable_index,
                                                             call.divisor)])
    /\ pc' = "returned"
    /\ UNCHANGED <<salt, call, notCall>>

CallUniAdd ==
    /\ pc = "call"
    /\ call.fn = "_add"
    /\ returned' = Returned(UniAdd(call.self, call.p2))
    /\ pc' = "returned"
    /\ UNCHANGED <<salt, call, notCall>>

POLYNext ==
    \/ CallEvaluate
    \/ CallPartiallyEvaluate
    \/ CallWAdd
    \/ CallWMul
    \/ CallInterpolate
    \/ CallComputeQuotientRemainder
    \/ CallUniAdd

SpecPolynomials == POLYInit /\ [][POLYNext]_vars

\* the slots of points before slot i that are not set
RECURSIVE UnsetBefore(_, _)
UnsetBefore(points, i) ==
    IF i <= 1 THEN 0
    ELSE UnsetBefore(points, i - 1) + (IF IsSome(points[i - 1]) THEN 0 ELSE 1)

\* the point whose set slots hold their values and whose unset slots hold the
\* bits of k, the first unset slot the most significant
FullPoint(points, k) ==
    LET unset == UnsetBefore(points, Len(points) + 1)
    IN  [i \in 1 .. Len(points) |->
            IF IsSome(points[i]) THEN Unwrap(points[i])
            ELSE BitOf(k, UnsetBefore(points, i), unset)]

\* C14: evaluate with as many points as variables does not fail and returns
\* the table, over the unset variables in their order with the first the most
\* significant, of the multilinear extension with every set variable at its
\* value; with every slot set that is one evaluation, the extension at the point.
C14_EvaluateIsRestrictedExtension ==
    (pc = "returned" /\ call.fn = "evaluate"
        /\ Len(call.points) = NumberOfVariables(call.self)) =>
        LET unset == UnsetBefore(call.points, Len(call.points) + 1)
        IN  /\ ~returned.panicked
            /\ Len(returned.value) = Pow2(unset)
            /\ \A k \in 0 .. Pow2(unset) - 1 :
                   returned.value[k + 1] = DirectMLE(call.self, FullPoint(call.points, k))
            /\ unset = 0 =>
                   returned.value = <<DirectMLE(call.self, Values(call.points))>>

\* evaluate has returned for a polynomial of three variables with the middle
\* one set to a value that is not a bit, and the table is not constant
C14_Witness ==
    /\ pc = "returned"
    /\ call.fn = "evaluate"
    /\ Len(call.self) = Pow2(MaxCallVars)
    /\ Len(call.points) = 3
    /\ call.points[1] = None /\ call.points[2] = Some(2) /\ call.points[3] = None
    /\ ~returned.panicked
    /\ returned.value[1] # returned.value[2]
    /\ returned.value[2] # returned.value[3]

\* the indexes below 2^n whose bit n - 1 - i is bit
IndexesWithBit(n, i, bit) == {x \in 0 .. Pow2(n) - 1 : BitOf(x, i, n) = bit}

\* the k-th smallest element of a set of numbers, k from 1
KthSmallest(S, k) == CHOOSE x \in S : Cardinality({y \in S : y < x}) = k - 1

\* the evaluations of e at the indexes whose bit n - 1 - i is bit, ascending
Restriction(e, i, bit) ==
    LET S == IndexesWithBit(NumberOfVariables(e), i, bit)
    IN  [k \in 1 .. Cardinality(S) |-> e[KthSmallest(S, k) + 1]]

\* C15: partially_evaluate(i, 0) returns the evaluations at the indexes whose
\* bit n - 1 - i is 0, in ascending order, for i = 0 the first half, and
\* partially_evaluate(i, 1) those at the indexes with that bit set.
C15_PartialEvaluationRestricts ==
    (pc = "returned" /\ call.fn = "partially_evaluate" /\ call.value \in {0, 1}) =>
        /\ ~returned.panicked
        /\ returned.value = Restriction(call.self, call.variable_idx, call.value)
        /\ Len(returned.value) = Len(call.self) \div 2
        /\ (call.variable_idx = 0 /\ call.value = 0) =>
               returned.value = SubSeq(call.self, 1, Len(call.self) \div 2)

\* partially_evaluate has returned for the middle variable of three at 1, on a
\* polynomial whose two restrictions differ
C15_Witness ==
    /\ pc = "returned"
    /\ call.fn = "partially_evaluate"
    /\ Len(call.self) = Pow2(MaxCallVars)
    /\ call.variable_idx = 1
    /\ call.value = 1
    /\ returned.value # Restriction(call.self, 1, 0)
    /\ returned.value # SubSeq(call.self, 1, Len(call.self) \div 2)

\* C16: w_add(a, b) and a.w_mul(b) return |a| * |b| evaluations, the one at
\* index i * |b| + j being a[i] + b[j], respectively a[i] * b[j], whether a and
\* b have as many variables or not.
C16_TensorSumAndProduct ==
    (pc = "returned" /\ call.fn \in {"w_add", "w_mul"}) =>
        /\ ~returned.panicked
        /\ Len(returned.value) = Len(call.a) * Len(call.b)
        /\ \A i \in 0 .. Len(call.a) - 1 : \A j \in 0 .. Len(call.b) - 1 :
               returned.value[i * Len(call.b) + j + 1] =
                   IF call.fn = "w_add" THEN (call.a[i + 1] + call.b[j + 1]) % FieldP
                   ELSE (call.a[i + 1] * call.b[j + 1]) % FieldP

\* What the tensor calls do return: w_add(a, b) is as C16 says where a and b
\* are as long; a.w_mul(b) holds b[i] * a[j] at i * |a| + j where they are as
\* long (b's variables first), which is C16's table when a = b; a call whose
\* first operand of operate_w is the shorter fails.
TensorOfEqualLengths ==
    (pc = "returned" /\ call.fn \in {"w_add", "w_mul"}) =>
        /\ returned.panicked <=>
               IF call.fn = "w_add" THEN Len(call.a) < Len(call.b) ELSE Len(call.b) < Len(call.a)
        /\ Len(call.a) = Len(call.b) =>
               \A i \in 0 .. Len(call.a) - 1 : \A j \in 0 .. Len(call.b) - 1 :
                   returned.value[i * Len(call.b) + j + 1] =
                       IF call.fn = "w_add" THEN (call.a[i + 1] + call.b[j + 1]) % FieldP
                       ELSE (call.b[i + 1] * call.a[j + 1]) % FieldP

\* the coefficient vectors of length n
Coefficients(n) == [1 .. n -> Field]

\* C17: for pairwise distinct x_points and every polynomial g of degree below
\* their number whose values at them are y_points, interpolate returns as
\* many coefficients as points, those of g padded with zeros.
C17_InterpolateRoundTrip ==
    (pc = "returned" /\ call.fn = "interpolate"
        /\ \A i, j \in 1 .. Len(call.x_points) : i # j => call.x_points[i] # call.x_points[j]) =>
        /\ ~returned.panicked
        /\ Len(returned.value) = Len(call.x_points)
        /\ \A g \in Coefficients(Len(call.x_points)) :
               (\A i \in 1 .. Len(call.x_points) :
                    DirectUniAt(g, call.x_points[i]) = call.y_points[i])
                   => returned.value = g

\* interpolate has returned for three distinct points and the values of a
\* polynomial of degree two, and the values of a constant at three points
C17_Witness ==
    /\ pc = "returned"
    /\ call.fn = "interpolate"
    /\ call.x_points = <<2, 0, 4>>
    /\ \E g \in Coefficients(3) :
           /\ g[3] # 0 /\ g[2] # 0 /\ g[1] # 0
           /\ \A i \in 1 .. 3 : DirectUniAt(g, call.x_points[i]) = call.y_points[i]
           /\ returned.value = g

\* ---------------------------------------------------------------------------
\* Calls of the circuit crate (src/arithmetic_circuit/src/circuit.rs)
\* ---------------------------------------------------------------------------

\* largest wire index a gate of a called circuit reads
MaxCallWire == 2

\* most gates of a called circuit, over all its layers
MaxCallGates == 3

\* most layers of a called circuit
MaxCallLayers == 2

CallGates == {Gate(left, right, operation) :
                left \in 0 .. MaxCallWire, right \in 0 .. MaxCallWire,
                operation \in {"Add", "Mul"}}

CallLayers(g) == [1 .. g -> CallGates]

\* the circuits of d layers, each of one gate at least, of gates gates at most
RECURSIVE CircuitsOf(_, _)
CircuitsOf(d, gates) ==
    IF d = 0 THEN {<<>>}
    ELSE UNION {{Append(c, l) : c \in CircuitsOf(d - 1, gates - g), l \in CallLayers(g)} :
                   g \in 1 .. gates - (d - 1)}

\* the circuits of 1..MaxCallLayers layers with MaxCallGates gates at most in all
CallCircuits == UNION {CircuitsOf(d, MaxCallGates) : d \in 1 .. MaxCallLayers}

\* the inputs of a called circuit: as many as the wires a gate may read, a power of two
CallInputs == [1 .. NextPowerOfTwo(MaxCallWire + 1) -> 0 .. MaxCallVal]

EvaluateAtInputCalls == [fn : {"evaluate_at_input"}, layers : CallCircuits, inputs : CallInputs]

GatePolyCalls ==
    UNION {[fn : {"get_add_i", "get_mul_i"}, layers : {c}, layer_idx : 0 .. Len(c)] :
              c \in CallCircuits}

CIRInit ==
    /\ salt = 0
    /\ pc = "call"
    /\ \/ call \in EvaluateAtInputCalls
       \/ call \in GatePolyCalls
    /\ returned = <<>>
    /\ SumcheckIdle
    /\ KzgIdle
    /\ GkrIdle
    /\ TranscriptIdle

CallEvaluateAtInput ==
    /\ pc = "call"
    /\ call.fn = "evaluate_at_input"
    /\ returned' = IF EvaluateAtInputPanics(call.layers, call.inputs) THEN Panicked
                   ELSE Returned(EvaluateAtInput(call.layers, call.inputs))
    /\ pc' = "returned"
    /\ UNCHANGED <<salt, call, notCall>>

CallGetAddI ==
    /\ pc = "call"
    /\ call.fn = "get_add_i"
    /\ returned' = IF GetGatePolyPanics(call.layers, call.layer_idx) THEN Panicked
                   ELSE Returned(GetAddI(call.layers, call.layer_idx))
    /\ pc' = "returned"
    /\ UNCHANGED <<salt, call, notCall>>

CallGetMulI ==
    /\ pc = "call"
    /\ call.fn = "get_mul_i"
    /\ returned' = IF GetGatePolyPanics(call.layers, call.layer_idx) THEN Panicked
                   ELSE Returned(GetMulI(call.layers, call.layer_idx))
    /\ pc' = "returned"
    /\ UNCHANGED <<salt, call, notCall>>

CIRNext ==
    \/ CallEvaluateAtInput
    \/ CallGetAddI
    \/ CallGetMulI

SpecCircuit == CIRInit /\ [][CIRNext]_vars

\* the least power of two that is n at least and least at least
PaddedLength(n, least) ==
    CHOOSE p \in {Pow2(k) : k \in 0 .. n + 1} :
        /\ p >= n /\ p >= least
        /\ \A q \in {Pow2(k) : k \in 0 .. n + 1} : (q >= n /\ q >= least) => p <= q

\* the wires below layer k of a circuit on so many inputs
WiresBelow(layers, k, input_length) ==
    IF k = 1 THEN input_length ELSE PaddedLength(Len(layers[k - 1]), 2)

\* every gate reads wires that exist
WiresExist(layers, input_length) ==
    \A k \in 1 .. Len(layers) : \A j \in 1 .. Len(layers[k]) :
        /\ layers[k][j].left < WiresBelow(layers, k, input_length)
        /\ layers[k][j].right < WiresBelow(layers, k, input_length)

\* C18: on a circuit whose gates read wires that exist, evaluate_at_input
\* returns one vector more than there are layers, the inputs first and the
\* wires of the output layer last; the wires of a layer are as many as the
\* least power of two that holds its gates, two at least; wire j is the sum or
\* the product, by the operation of gate j, of the two wires of the layer
\* below the gate reads, and every wire without a gate is 0.
C18_CircuitEvaluation ==
    (pc = "returned" /\ call.fn = "evaluate_at_input"
        /\ WiresExist(call.layers, Len(call.inputs))) =>
        /\ ~returned.panicked
        /\ Len(returned.value) = Len(call.layers) + 1
        /\ returned.value[1] = call.inputs
        /\ \A k \in 1 .. Len(call.layers) :
               LET gates == call.layers[k]
                   below == returned.value[k]
                   wires == returned.value[k + 1]
               IN  /\ Len(wires) = PaddedLength(Len(gates), 2)
                   /\ \A j \in 1 .. Len(wires) :
                          wires[j] =
                              IF j > Len(gates) THEN 0
                              ELSE IF gates[j].operation = "Add"
                              THEN (below[gates[j].left + 1] + below[gates[j].right + 1]) % FieldP
                              ELSE (below[gates[j].left + 1] * below[gates[j].right + 1]) % FieldP

\* evaluate_at_input has returned for a circuit of two layers, three gates in
\* all, whose output is not 0 and one of whose padded wires follows a wire
\* that is not 0
C18_Witness ==
    /\ pc = "returned"
    /\ call.fn = "evaluate_at_input"
    /\ Len(call.layers) = 2
    /\ Len(call.layers[1]) = 2
    /\ call.layers[1][1].operation = "Add"
    /\ call.layers[1][2].operation = "Mul"
    /\ call.layers[2][1].operation = "Mul"
    /\ ~returned.panicked
    /\ returned.value[2][1] # returned.value[2][2]
    /\ returned.value[3][1] # 0
    /\ returned.value[3][2] = 0

\* the largest wire index the gates read
LargestReadIndex(gates) ==
    CHOOSE x \in {gates[j].left : j \in 1 .. Len(gates)} \cup {gates[j].right : j \in 1 .. Len(gates)} :
        \A j \in 1 .. Len(gates) : gates[j].left <= x /\ gates[j].right <= x

\* C19: for a layer index below the layer count, 0 the output layer,
\* get_add_i and get_mul_i return 2^a * 2^(2b) evaluations, 2^a the padded
\* gate count (two at least) and 2^b the least power of two above the
\* largest wire index read; the entry at (out * 2^b + left) * 2^b + right is 1
\* for each gate of the layer with the operation asked for, every other is 0.
C19_SelectorPolynomials ==
    (pc = "returned" /\ call.fn \in {"get_add_i", "get_mul_i"}
        /\ call.layer_idx < Len(call.layers)) =>
        LET gates == call.layers[Len(call.layers) - call.layer_idx]
            padded == PaddedLength(Len(gates), 2)
            width == PaddedLength(LargestReadIndex(gates) + 1, 1)
            operation == IF call.fn = "get_add_i" THEN "Add" ELSE "Mul"
        IN  /\ ~returned.panicked
            /\ Len(returned.value) = padded * width * width
            /\ \A i \in 0 .. Len(returned.value) - 1 :
                   returned.value[i + 1] =
                       IF \E out \in 0 .. Len(gates) - 1 :
                              /\ gates[out + 1].operation = operation
                              /\ i = (out * width + gates[out + 1].left) * width
                                         + gates[out + 1].right
                       THEN 1 ELSE 0

\* get_add_i has returned for the input-side layer of a circuit of two
\* layers, a layer of two gates of both operations reading wire 2
C19_Witness ==
    /\ pc = "returned"
    /\ call.fn = "get_add_i"
    /\ Len(call.layers) = 2
    /\ call.layer_idx = 1
    /\ Len(call.layers[1]) = 2
    /\ call.layers[1][1] = Gate(0, 1, "Mul")
    /\ call.layers[1][2] = Gate(1, 2, "Add")
    /\ Len(returned.value) = 32
    /\ returned.value[16 + 4 + 2 + 1] = 1

\* ---------------------------------------------------------------------------
\* GKR closed by KZG openings of the input polynomial
\* (src/gkr/src/verifier.rs, verify_proof_with_kzg; the proving side and the
\*  four-argument MultilinearKZGVerifier::verify_proof it calls are not among
\*  the sources and follow section 4.5 of the specification)
\* ---------------------------------------------------------------------------

\* largest amount a field of a proof is moved by on its way
MaxShift == 1

\* to_string().as_bytes() of a number: its decimal digits in ASCII
RECURSIVE DecimalBytes(_)
DecimalBytes(n) == IF n < 10 THEN <<48 + n>> ELSE DecimalBytes(n \div 10) \o <<48 + (n % 10)>>

\* proof.commitment.to_string().as_bytes()
CommitmentToBytes(c) == DecimalBytes(c.e)

\* MultilinearKZGProver::generate_proof run to its end
RECURSIVE KzgProofRun(_, _, _)
KzgProofRun(st, opening, encrypted_lagrange_basis) ==
    IF st.panicked \/ st.idx = Len(opening) THEN st
    ELSE KzgProofRun(KzgQuotientStep(st, opening, encrypted_lagrange_basis),
                     opening, encrypted_lagrange_basis)

\* the opening of the input polynomial at a point
KzgOpen(opening, encrypted_lagrange_basis, polynomial_evals) ==
    LET st == KzgProofRun(KzgProofStart(opening, encrypted_lagrange_basis, polynomial_evals),
                          opening, encrypted_lagrange_basis)
    IN  [commitment |-> st.commitment, v |-> st.v, q_taus |-> st.quotients]

\* generate_proof_with_kzg up to its loop: the commitment to the inputs is
\* absorbed, then the output polynomial
GkrKzgProverStart(s, layers, ins, encrypted_lagrange_basis) ==
    LET w_0 == GetWI(0, EvaluateAtInput(layers, ins))
        commitment == GenerateCommitment(ins, encrypted_lagrange_basis)
        sampled == SampleNChallenges(s, TAppendN(TranscriptNew,
                                         <<CommitmentToBytes(commitment), MlpToBytes(w_0)>>),
                                     NumberOfVariables(w_0))
    IN  [panicked |-> FALSE, layer_idx |-> 0, t |-> sampled.t,
         random_values |-> SomeAll(sampled.cs),
         running_layer_polynomial |-> w_0,
         w_polys_evals |-> <<>>, sum_check_proofs |-> <<>>]

\* the proof generate_proof_with_kzg returns: the openings at r_b and r_c
GkrKzgProofOf(layers, ins, encrypted_lagrange_basis, st) ==
    LET points == Values(st.random_values)
        half == Len(points) \div 2
    IN  [commitment |-> GenerateCommitment(ins, encrypted_lagrange_basis),
         output_poly |-> GetWI(0, EvaluateAtInput(layers, ins)),
         w_polys_evals |-> st.w_polys_evals,
         sumcheck_proofs |-> st.sum_check_proofs,
         kzg_proofs |-> <<KzgOpen(SubSeq(points, 1, half), encrypted_lagrange_basis, ins),
                          KzgOpen(SubSeq(points, half + 1, Len(points)),
                                  encrypted_lagrange_basis, ins)>>]

\* MultilinearKZGVerifier::verify_proof(&commitment, kzg_proof, opening, taus)
KzgVerifyAgainst(commitment, kproof, opening, encrypted_taus) ==
    KzgVerifyProof([kproof EXCEPT !.commitment = commitment], opening, encrypted_taus)

\* verify_proof_with_kzg up to its loop
GkrKzgVerifierStart(s, gproof) ==
    LET sampled == SampleNChallenges(s, TAppendN(TranscriptNew,
                                         <<CommitmentToBytes(gproof.commitment),
                                           MlpToBytes(gproof.output_poly)>>),
                                     NumberOfVariables(gproof.output_poly))
    IN  [layer_idx |-> 0, t |-> sampled.t, random_values |-> SomeAll(sampled.cs),
         final_claim_sum |-> 0, new_addi_b_c_eval |-> 0, new_muli_b_c_eval |-> 0,
         kzg_results |-> <<>>]

\* the results of MultilinearKZGVerifier::verify_proof on the openings, in
\* order, up to the first that fails with a panic
RECURSIVE KzgResults(_, _, _, _, _)
KzgResults(gproof, r_b, r_c, encrypted_taus, idx) ==
    IF idx > Len(gproof.kzg_proofs) THEN <<>>
    ELSE LET res == KzgVerifyAgainst(gproof.commitment, gproof.kzg_proofs[idx],
                                     IF idx = 1 THEN r_b ELSE r_c, encrypted_taus)
         IN  IF res = "panic" THEN <<res>>
             ELSE <<res>> \o KzgResults(gproof, r_b, r_c, encrypted_taus, idx + 1)

\* the evaluations of the next W: the v of the first two openings at the
\* input layer, the evaluations of the proof above it
GkrKzgNextWEvals(layers, gproof, layer_idx, next_evaluation_values, encrypted_taus) ==
    LET openings_all == Values(next_evaluation_values)
        half == Len(openings_all) \div 2
        results == KzgResults(gproof, SubSeq(openings_all, 1, half),
                              SubSeq(openings_all, half + 1, Len(openings_all)),
                              encrypted_taus, 1)
    IN  IF layer_idx + 1 = GetLayerCount(layers)
        THEN IF \E i \in 1 .. Len(results) : results[i] = "panic"
             THEN [panicked |-> TRUE, kzg_results |-> results]
             ELSE IF Len(gproof.kzg_proofs) < 2
             THEN [panicked |-> TRUE, kzg_results |-> results]
             ELSE [panicked |-> FALSE, kzg_results |-> results,
                   b |-> gproof.kzg_proofs[1].v, c |-> gproof.kzg_proofs[2].v,
                   can_use_evals |-> \A i \in 1 .. Len(results) : results[i] = "true"]
        ELSE IF layer_idx >= Len(gproof.w_polys_evals)
        THEN [panicked |-> TRUE, kzg_results |-> <<>>]
        ELSE [panicked |-> FALSE, kzg_results |-> <<>>,
              b |-> gproof.w_polys_evals[layer_idx + 1][1],
              c |-> gproof.w_polys_evals[layer_idx + 1][2],
              can_use_evals |-> TRUE]

\* an iteration of verify_proof_with_kzg from the evaluations w on
GkrKzgVerifierOracle(st, sel, pv, w) ==
    LET addi_eval == Evaluate(sel.addi, pv.challenges)[1]
        muli_eval == Evaluate(sel.muli, pv.challenges)[1]
        seen == [st EXCEPT !.t = pv.t, !.kzg_results = w.kzg_results,
                           !.final_claim_sum = pv.sum,
                           !.new_addi_b_c_eval = addi_eval,
                           !.new_muli_b_c_eval = muli_eval]
    IN  IF w.panicked THEN [outcome |-> "panic", st |-> seen]
        ELSE IF ~w.can_use_evals THEN [outcome |-> "false", st |-> seen]
        ELSE IF \/ ~pv.ok
                \/ FAdd(FMul(addi_eval, FAdd(w.b, w.c)), FMul(muli_eval, FMul(w.b, w.c))) # pv.sum
        THEN [outcome |-> "false",
              st |-> [seen EXCEPT !.t = TAppendN(pv.t, <<FieldToBytes(w.b), FieldToBytes(w.c)>>)]]
        ELSE [outcome |-> "continue",
              st |-> [seen EXCEPT !.t = TAppendN(pv.t, <<FieldToBytes(w.b), FieldToBytes(w.c)>>),
                                  !.layer_idx = st.layer_idx + 1,
                                  !.random_values = pv.challenges]]

\* an iteration of verify_proof_with_kzg from the result of partial_verify on
GkrKzgVerifierAfterSumcheck(layers, gproof, encrypted_taus, st, sel, pv) ==
    IF \/ EvaluatePanics(sel.addi, pv.challenges)
       \/ EvaluatePanics(sel.muli, pv.challenges)
    THEN [outcome |-> "panic", st |-> [st EXCEPT !.t = pv.t]]
    ELSE GkrKzgVerifierOracle(st, sel, pv,
             GkrKzgNextWEvals(layers, gproof, st.layer_idx, pv.challenges, encrypted_taus))

\* an iteration of verify_proof_with_kzg from the selectors on
GkrKzgVerifierSumcheck(s, layers, gproof, encrypted_taus, st, sel) ==
    IF sel.panicked THEN [outcome |-> "panic", st |-> st]
    ELSE IF st.layer_idx >= Len(gproof.sumcheck_proofs)
    THEN [outcome |-> "panic", st |-> st]
    ELSE GkrKzgVerifierAfterSumcheck(layers, gproof, encrypted_taus, st, sel,
             PartialVerify(s, gproof.sumcheck_proofs[st.layer_idx + 1], sel.t))

\* an iteration of the loop of verify_proof_with_kzg
GkrKzgVerifierLayer(s, layers, gproof, encrypted_taus, st) ==
    GkrKzgVerifierSumcheck(s, layers, gproof, encrypted_taus, st,
                           GkrVerifierSelectors(s, layers, st))

\* What may happen to a proof with openings between prover and verifier: the
\* v or the first quotient commitment of opening j, or the commitment of the
\* proof, is moved by d; or of the openings only the first keep are
\* delivered, or (keep = 3) the second is delivered twice, v of the first
\* moved or not.
GkrKzgTampers ==
    {[kind |-> "none", j |-> 0, d |-> 0, keep |-> keep] : keep \in 0 .. 3}
    \cup {[kind |-> kind, j |-> j, d |-> d, keep |-> 2] :
            kind \in {"v", "q"}, j \in 1 .. 2, d \in 1 .. MaxShift}
    \cup {[kind |-> "v", j |-> 1, d |-> d, keep |-> keep] :
            d \in 1 .. MaxShift, keep \in {1, 3}}
    \cup {[kind |-> "commitment", j |-> 0, d |-> d, keep |-> 2] : d \in 1 .. MaxShift}

ChangedOpenings(gproof, tm) ==
    CASE tm.kind = "v" ->
            [gproof.kzg_proofs EXCEPT ![tm.j].v = FAdd(@, tm.d)]
      [] tm.kind = "q" ->
            [gproof.kzg_proofs EXCEPT ![tm.j].q_taus[1] = GAdd(@, MulBigint(G1Generator, tm.d))]
      [] OTHER -> gproof.kzg_proofs

ApplyGkrKzgTamper(gproof, tm) ==
    LET changed == ChangedOpenings(gproof, tm)
    IN  [gproof EXCEPT
            !.commitment = IF tm.kind = "commitment"
                           THEN GAdd(@, MulBigint(G1Generator, tm.d)) ELSE @,
            !.kzg_proofs = IF tm.keep = 3 THEN Append(changed, changed[2])
                           ELSE SubSeq(changed, 1, tm.keep)]

HonestDelivery == [kind |-> "none", j |-> 0, d |-> 0, keep |-> 2]

GKInit ==
    /\ salt = 0
    /\ pc = "setup"
    /\ circuit \in Circuits
    /\ inputs \in GkrInputs
    /\ taus \in [1 .. NumberOfVariables(inputs) -> Vals]
    /\ setup = NoSetup
    /\ gkrProver = IdleGkrProver
    /\ gkrProof = NoGkrProof
    /\ gkrTamper = HonestDelivery
    /\ gkrVerifier = IdleGkrVerifier
    /\ gkrResult = "none"
    /\ openings = <<>>
    /\ polynomial = <<>>
    /\ kzgProver = IdleKzgProver
    /\ kzgProof = NoKzgProof
    /\ kzgTamper = NoKzgTamper
    /\ kzgResult = "none"
    /\ SumcheckIdle
    /\ TranscriptIdle
    /\ CallIdle

notGkrKzg == <<scVars, trVars, fnVars, openings, polynomial, kzgProver, kzgProof,
               kzgTamper, kzgResult>>

\* TrustedSetup::new(taus)
GkSetup ==
    /\ pc = "setup"
    /\ setup' = TrustedSetupNew(taus)
    /\ pc' = "generate"
    /\ UNCHANGED <<salt, circuit, inputs, taus, gkrProver, gkrProof, gkrTamper, gkrVerifier,
                   gkrResult, notGkrKzg>>

GkGenerateStart ==
    /\ pc = "generate"
    /\ gkrProver' = GkrKzgProverStart(salt, circuit, inputs, setup.encrypted_lagrange_basis)
    /\ pc' = "layers"
    /\ UNCHANGED <<salt, circuit, inputs, taus, setup, gkrProof, gkrTamper, gkrVerifier,
                   gkrResult, notGkrKzg>>

GkGenerateLayer ==
    /\ pc = "layers"
    /\ gkrProver.layer_idx < GetLayerCount(circuit)
    /\ gkrProver' = GkrProverLayer(salt, circuit, inputs, gkrProver)
    /\ IF gkrProver'.panicked
       THEN /\ pc' = "done"
            /\ gkrResult' = "panic"
       ELSE UNCHANGED <<pc, gkrResult>>
    /\ UNCHANGED <<salt, circuit, inputs, taus, setup, gkrProof, gkrTamper, gkrVerifier,
                   notGkrKzg>>

GkGenerateFinish ==
    /\ pc = "layers"
    /\ gkrProver.layer_idx = GetLayerCount(circuit)
    /\ gkrProof' = GkrKzgProofOf(circuit, inputs, setup.encrypted_lagrange_basis, gkrProver)
    /\ pc' = "proved"
    /\ UNCHANGED <<salt, circuit, inputs, taus, setup, gkrProver, gkrTamper, gkrVerifier,
                   gkrResult, notGkrKzg>>

GkDeliver ==
    /\ pc = "proved"
    /\ \E tm \in GkrKzgTampers :
          /\ gkrTamper' = tm
          /\ gkrProof' = ApplyGkrKzgTamper(gkrProof, tm)
    /\ pc' = "verify"
    /\ UNCHANGED <<salt, circuit, inputs, taus, setup, gkrProver, gkrVerifier, gkrResult,
                   notGkrKzg>>

GkVerifyStart ==
    /\ pc = "verify"
    /\ gkrVerifier' = GkrKzgVerifierStart(salt, gkrProof)
    /\ pc' = "verifying"
    /\ UNCHANGED <<salt, circuit, inputs, taus, setup, gkrProver, gkrProof, gkrTamper,
                   gkrResult, notGkrKzg>>

GkVerifyLayer ==
    /\ pc = "verifying"
    /\ gkrVerifier.layer_idx < GetLayerCount(circuit)
    /\ LET r == GkrKzgVerifierLayer(salt, circuit, gkrProof, setup.encrypted_taus, gkrVerifier)
       IN  /\ gkrVerifier' = r.st
           /\ IF r.outcome = "continue"
              THEN UNCHANGED <<pc, gkrResult>>
              ELSE /\ pc' = "done"
                   /\ gkrResult' = r.outcome
    /\ UNCHANGED <<salt, circuit, inputs, taus, setup, gkrProver, gkrProof, gkrTamper,
                   notGkrKzg>>

GkVerifyFinish ==
    /\ pc = "verifying"
    /\ gkrVerifier.layer_idx = GetLayerCount(circuit)
    /\ gkrResult' = "true"
    /\ pc' = "done"
    /\ UNCHANGED <<salt, circuit, inputs, taus, setup, gkrProver, gkrProof, gkrTamper,
                   gkrVerifier, notGkrKzg>>

GKNext ==
    \/ GkSetup
    \/ GkGenerateStart
    \/ GkGenerateLayer
    \/ GkGenerateFinish
    \/ GkDeliver
    \/ GkVerifyStart
    \/ GkVerifyLayer
    \/ GkVerifyFinish

SpecGKRKZG == GKInit /\ [][GKNext]_vars

\* the opening verifies against the commitment at the point: on exponents,
\* commitment - v is the sum over j of (tau_j - a_j) q_j
OpeningHolds(commitment, kproof, opening) ==
    (commitment.e - kproof.v + FieldP) % FieldP
        = DirectQuotientSum(taus, opening, kproof.q_taus, 1)

\* the verifier has begun: before its first layer it has absorbed the
\* commitment, then the output polynomial, and squeezed the random values
CommitmentAbsorbedFirst ==
    (pc = "verifying" /\ gkrVerifier.layer_idx = 0) =>
        gkrVerifier.t = SqueezeStream(salt, CommitmentToBytes(gkrProof.commitment)
                                                \o MlpToBytes(gkrProof.output_poly),
                                      NumberOfVariables(gkrProof.output_poly))

\* true is returned only if every opening verifies against the commitment
\* of the proof, the first at r_b and the others at r_c, and the oracle
\* identity of the input layer holds with the v of the first two openings
TrueOnlyIfOpeningsVerify ==
    (pc = "done" /\ gkrResult = "true") =>
        LET points == Values(gkrVerifier.random_values)
            half == Len(points) \div 2
            r_b == SubSeq(points, 1, half)
            r_c == SubSeq(points, half + 1, Len(points))
        IN  /\ Len(gkrProof.kzg_proofs) >= 2
            /\ \A idx \in 1 .. Len(gkrProof.kzg_proofs) :
                   OpeningHolds(gkrProof.commitment, gkrProof.kzg_proofs[idx],
                                IF idx = 1 THEN r_b ELSE r_c)
            /\ gkrVerifier.final_claim_sum =
                   (gkrVerifier.new_addi_b_c_eval
                        * ((gkrProof.kzg_proofs[1].v + gkrProof.kzg_proofs[2].v) % FieldP)
                    + gkrVerifier.new_muli_b_c_eval
                        * ((gkrProof.kzg_proofs[1].v * gkrProof.kzg_proofs[2].v) % FieldP)) % FieldP

\* an opening was verified and did not pass
OpeningFailed == \E i \in 1 .. Len(gkrVerifier.kzg_results) : gkrVerifier.kzg_results[i] = "false"

KzgClosedWithTwoOpenings ==
    /\ CommitmentAbsorbedFirst
    /\ TrueOnlyIfOpeningsVerify
    /\ (pc = "done" /\ ~gkrProver.panicked /\ OpeningFailed /\ Len(gkrProof.kzg_proofs) >= 2)
           => gkrResult = "false"

\* an honest run is accepted, on a circuit of two layers
KzgClosedAccepted ==
    /\ pc = "done"
    /\ gkrResult = "true"
    /\ gkrTamper = HonestDelivery
    /\ GetLayerCount(circuit) = 2
    /\ gkrProof.kzg_proofs[1].v # gkrProof.kzg_proofs[2].v

\* a run with three openings delivered is accepted
KzgClosedAcceptedThree ==
    /\ pc = "done"
    /\ gkrResult = "true"
    /\ Len(gkrProof.kzg_proofs) = 3

\* ------------------------------------------- sum-check: rejection and frame

\* partial_verify has returned false at the round `round`
RejectedAtRound == pc = "done" /\ PartialVerifyEntered /\ ~verifier.ok

\* the bytes one passing round adds: claim, polynomial, digest
RoundBytes(g) == ByteLen + Len(g) * ByteLen + ByteLen

RECURSIVE PassedBytes(_, _)
PassedBytes(polys, m) ==
    IF m = 0 THEN 0 ELSE PassedBytes(polys, m - 1) + RoundBytes(polys[m])

\* C21: when partial_verify returns false at round k, the transcript holds
\* exactly what rounds 1..k-1 absorbed (claim, polynomial bytes, digest) and
\* nothing of round k, and the returned challenge list has length k-1.
C21_RejectionLeavesTranscript ==
    RejectedAtRound =>
        LET passed == RoundChain(proof.round_polys, round - 1, 1,
                                 proof.initial_claim_sum, <<>>, FlatBytes(f))
        IN  /\ passed.ok
            /\ verifier.t = passed.t
            /\ Len(verifier.t) = Len(FlatBytes(f)) + PassedBytes(proof.round_polys, round - 1)
            /\ Len(verifier.challenges) = round - 1
            /\ verifier.challenges = passed.challenges

C21_Witness ==
    /\ RejectedAtRound /\ round = 2
    /\ Len(verifier.t) = Len(FlatBytes(f)) + RoundBytes(proof.round_polys[1])
    /\ tamper.kind = "const" /\ tamper.k = 2

\* ------------------------------------------- sum-check: no variable at all

\* an honest run over a polynomial of one evaluation has ended
ZeroVariableRun == pc = "done" /\ HonestRun /\ NumberOfVariables(f) = 0

\* C22: for a multilinear polynomial of no variable (one evaluation) the proof
\* generate_sumcheck_proof makes has no round polynomial, and verify_proof
\* returns true on it.
C22_ZeroVariableAccepted ==
    ZeroVariableRun => (proof.round_polys = <<>> /\ result = "true")

\* what the code does there: the proof is empty, its claim is the evaluation,
\* every round (there is none) passes, and verify_proof returns false
ZeroVariableRejected ==
    ZeroVariableRun =>
        /\ proof = [initial_claim_sum |-> f[1], round_polys |-> <<>>]
        /\ verifier.ok /\ verifier.challenges = <<>>
        /\ result = "false"

\* ------------------------------------- sum-check over a sum polynomial

\* the products of a sum polynomial, the factors of a product, the table cells
MaxProducts == 3
MaxFactors == 3
MaxSumCells == 12

\* sum polynomials of `products` products of `factors` factors of n variables
SumPolysOf(products, factors, n) ==
    [1 .. products -> [1 .. factors -> [1 .. Pow2(n) -> 0 .. MaxCallVal]]]

SumPolys ==
    UNION {SumPolysOf(p, m, n) :
             <<p, m, n>> \in {s \in (1 .. MaxProducts) \X (1 .. MaxFactors) \X (1 .. MaxVars) :
                                s[1] * s[2] * Pow2(s[3]) <= MaxSumCells}}

\* the caller's claim: the sum polynomial summed over the hypercube
SumOverHypercube(prods) == FSumSeq(SumReduce(prods))

SUMInit ==
    /\ salt \in Salts
    /\ pc = "sum_generate"
    /\ \E prods \in SumPolys :
          call = [fn |-> "generate_proof_for_partial_verify",
                  initial_claim_sum |-> SumOverHypercube(prods), init_poly |-> prods]
    /\ returned = <<>>
    /\ SumcheckIdle
    /\ KzgIdle
    /\ GkrIdle
    /\ TranscriptIdle

notSumSumcheck == <<f, tamper, round, kzgVars, gkrVars, trVars>>

\* generate_proof_for_partial_verify enters generate_round_polys, fresh transcript
SumGenerateStart ==
    /\ pc = "sum_generate"
    /\ prover' = [kind |-> "sum", poly |-> call.init_poly, t |-> TranscriptNew,
                  round_polys |-> <<>>, challenges |-> <<>>]
    /\ pc' = "sum_rounds"
    /\ UNCHANGED <<salt, call, returned, proof, verifier, result>>
    /\ UNCHANGED notSumSumcheck

\* one iteration of generate_round_polys over the sum polynomial
SumGenerateRound ==
    /\ pc = "sum_rounds"
    /\ Len(prover.round_polys) < SumNumberOfVariables(call.init_poly)
    /\ IF SumRoundPanics(prover.poly)
       THEN /\ returned' = Panicked
            /\ result' = "panic"
            /\ pc' = "done"
            /\ UNCHANGED prover
       ELSE /\ prover' = ProverRoundStep(salt, prover)
            /\ UNCHANGED <<pc, returned, result>>
    /\ UNCHANGED <<salt, call, proof, verifier>>
    /\ UNCHANGED notSumSumcheck

\* generate_proof_for_partial_verify returns the proof and the random points
SumGenerateFinish ==
    /\ pc = "sum_rounds"
    /\ Len(prover.round_polys) = SumNumberOfVariables(call.init_poly)
    /\ proof' = [initial_claim_sum |-> call.initial_claim_sum,
                 round_polys |-> prover.round_polys]
    /\ returned' = Returned(prover.challenges)
    /\ pc' = "sum_verify"
    /\ UNCHANGED <<salt, call, prover, verifier, result>>
    /\ UNCHANGED notSumSumcheck

\* partial_verify of that proof with a fresh transcript
SumPartialVerify ==
    /\ pc = "sum_verify"
    /\ verifier' = PartialVerify(salt, proof, TranscriptNew)
    /\ result' = IF verifier'.ok THEN "true" ELSE "false"
    /\ pc' = "done"
    /\ UNCHANGED <<salt, call, returned, prover, proof>>
    /\ UNCHANGED notSumSumcheck

SUMNext ==
    \/ SumGenerateStart
    \/ SumGenerateRound
    \/ SumGenerateFinish
    \/ SumPartialVerify

SpecSumPolynomial == SUMInit /\ [][SUMNext]_vars

\* ------------------------------ sum-check over a sum polynomial: claims

\* a sum polynomial at a point, from the multilinear extensions of its factors
DirectProductAt(polys, r) ==
    LET RECURSIVE Acc(_)
        Acc(j) == IF j > Len(polys) THEN 1 ELSE (DirectMLE(polys[j], r) * Acc(j + 1)) % FieldP
    IN  Acc(1)

DirectSumPolyAt(prods, r) ==
    LET RECURSIVE Acc(_)
        Acc(p) == IF p > Len(prods) THEN 0
                  ELSE (DirectProductAt(prods[p], r) + Acc(p + 1)) % FieldP
    IN  Acc(1)

\* the i-th point of the hypercube of `len` variables
HypercubePoint(i, len) == [j \in 1 .. len |-> BitOf(i, j - 1, len)]

\* the sum of S over the hypercube of the variables after x_k, with the earlier
\* variables at `fixed` and x_k at x
DirectPartialSum(prods, fixed, x, n) ==
    LET rest == n - Len(fixed) - 1
        RECURSIVE Acc(_)
        Acc(i) == IF i = Pow2(rest) THEN 0
                  ELSE (DirectSumPolyAt(prods, fixed \o <<x>> \o HypercubePoint(i, rest))
                        + Acc(i + 1)) % FieldP
    IN  Acc(0)

\* g_k is, as a polynomial, the partial sum with the earlier challenges fixed
RoundPolyIsPartialSum(prods, polys, rs, k) ==
    \A x \in Field :
        DirectUniAt(polys[k], x)
            = DirectPartialSum(prods, SubSeq(rs, 1, k - 1), x, ILog2(Len(prods[1][1])))

\* generate_proof_for_partial_verify and partial_verify agree on the run
SumSumcheckAgrees(prods) ==
    /\ result # "panic"
    /\ Len(proof.round_polys) = ILog2(Len(prods[1][1]))
    /\ \A k \in 1 .. Len(proof.round_polys) :
          RoundPolyIsPartialSum(prods, proof.round_polys, prover.challenges, k)
    /\ verifier.ok /\ result = "true"
    /\ Values(verifier.challenges) = prover.challenges
    /\ returned = Returned(prover.challenges)
    /\ verifier.sum = DirectSumPolyAt(prods, prover.challenges)

\* C23: for every sum polynomial (one or more products of one or more factors
\* each, one or more variables) and the claim equal to its sum over the
\* hypercube, generate_proof_for_partial_verify returns n round polynomials,
\* g_k the partial sum with the earlier challenges fixed, of degree the number
\* of factors and interpolated through 0..degree, and partial_verify with a
\* fresh transcript returns true, the same challenges and S at the challenges.
C23_SumPolynomialSumcheck ==
    (pc = "done" /\ call # <<>>) =>
        /\ SumSumcheckAgrees(call.init_poly)
        /\ \A k \in 1 .. Len(proof.round_polys) :
              Len(proof.round_polys[k]) = Len(call.init_poly[1]) + 1

\* what the code does: degree() is the number of products and the round
\* polynomial is interpolated through 0, 1, 2 whatever the degree.  One product
\* panics; two or more products of at most two factors go through, with round
\* polynomials of three coefficients.
SumSumcheckOfTwoFactors ==
    (pc = "done" /\ call # <<>>) =>
        /\ Len(call.init_poly) = 1 => result = "panic"
        /\ (Len(call.init_poly) >= 2 /\ Len(call.init_poly[1]) <= 2) =>
              /\ SumSumcheckAgrees(call.init_poly)
              /\ \A k \in 1 .. Len(proof.round_polys) : Len(proof.round_polys[k]) = 3

SumSumcheckAccepted ==
    /\ pc = "done" /\ call # <<>> /\ result = "true"
    /\ Len(call.init_poly) = 2 /\ Len(call.init_poly[1]) = 2
    /\ verifier.sum # 0

SumSumcheckTwoRounds ==
    /\ pc = "done" /\ call # <<>> /\ result = "true"
    /\ Len(proof.round_polys) = 2 /\ verifier.sum # 0

\* ------------------------------------------ GKR: proofs of another prover

\* A prover is free to send any proof.  This one follows generate_proof except
\* in one place:
\*   output: it announces (absorbs and sends) the output polynomial with entry
\*           j moved by d, and claims in the first sum-check the value of the
\*           circuit's own output polynomial at the random values
\*   evals:  at layer l it absorbs and sends (u + d, v + e) for the evaluations
\*           (u, v) of W_l, and claims alpha u + beta v in the sum-check
MaxDelta == 1

Deltas == {0, 1, FieldP - MaxDelta}

GkrForgeries(layers) ==
    {[kind |-> "none", l |-> 0, j |-> 0, d |-> 0, e |-> 0]}
    \cup {[kind |-> "output", l |-> 0, j |-> j, d |-> d, e |-> 0] :
            j \in 1 .. 2, d \in 1 .. MaxVal}
    \cup {[kind |-> "evals", l |-> l, j |-> 0, d |-> d, e |-> e] :
            l \in 1 .. (Len(layers) - 1), d \in Deltas, e \in Deltas}

GkrForgerStart(s, layers, ins, fg) ==
    LET w_0 == GetWI(0, EvaluateAtInput(layers, ins))
        announced == IF fg.kind = "output" THEN [w_0 EXCEPT ![fg.j] = FAdd(w_0[fg.j], fg.d)]
                     ELSE w_0
        c == SampleNChallenges(s, TAppend(TranscriptNew, MlpToBytes(announced)),
                               NumberOfVariables(announced))
    IN  [panicked |-> FALSE, layer_idx |-> 0, t |-> c.t,
         random_values |-> SomeAll(c.cs),
         running_layer_polynomial |-> w_0,
         w_polys_evals |-> <<>>, sum_check_proofs |-> <<>>]

\* the folded claim with other evaluations sent than used
GkrForgerClaimFolded(s, layers, st, fg) ==
    LET half == Len(st.random_values) \div 2
        r_b == SubSeq(st.random_values, 1, half)
        r_c == SubSeq(st.random_values, half + 1, Len(st.random_values))
        muli_a_b_c == GetMulI(layers, st.layer_idx)
        addi_a_b_c == GetAddI(layers, st.layer_idx)
    IN  IF \/ EvaluatePanics(st.running_layer_polynomial, r_b)
           \/ EvaluatePanics(st.running_layer_polynomial, r_c)
           \/ GetFoldedPolysPanics(muli_a_b_c, r_b, r_c)
        THEN [panicked |-> TRUE]
        ELSE LET u == Evaluate(st.running_layer_polynomial, r_b)[1]
                 v == Evaluate(st.running_layer_polynomial, r_c)[1]
                 sent == <<FAdd(u, fg.d), FAdd(v, fg.e)>>
                 t1 == TAppendN(st.t, <<FieldToBytes(sent[1]), FieldToBytes(sent[2])>>)
                 alpha == SampleChallenge(s, t1)
                 beta == SampleChallenge(s, alpha.t)
                 folded == GetFoldedPolys(alpha.c, beta.c, muli_a_b_c, addi_a_b_c, r_b, r_c)
             IN  [panicked |-> FALSE,
                  claim_sum |-> FAdd(FMul(alpha.c, u), FMul(beta.c, v)),
                  muli |-> folded.muli, addi |-> folded.addi,
                  t |-> beta.t,
                  w_polys_evals |-> Append(st.w_polys_evals, sent)]

GkrForgerLayer(s, layers, ins, st, fg) ==
    GkrProverSumcheck(s, st,
        IF fg.kind = "evals" /\ fg.l = st.layer_idx
        THEN GkrForgerClaimFolded(s, layers, st, fg)
        ELSE GkrProverClaim(s, layers, st),
        GetWI(st.layer_idx + 1, EvaluateAtInput(layers, ins)))

GkrAnnouncedOutput(layers, ins, fg) ==
    LET w_0 == GetWI(0, EvaluateAtInput(layers, ins))
    IN  IF fg.kind = "output" THEN [w_0 EXCEPT ![fg.j] = FAdd(w_0[fg.j], fg.d)] ELSE w_0

NoGkrForgery == [kind |-> "none", l |-> 0, j |-> 0, d |-> 0, e |-> 0]

FGInit ==
    /\ salt = 0
    /\ pc = "forge"
    /\ circuit \in Circuits
    /\ inputs \in GkrInputs
    /\ gkrProver = IdleGkrProver
    /\ gkrProof = NoGkrProof
    /\ gkrTamper = NoGkrForgery
    /\ gkrVerifier = IdleGkrVerifier
    /\ gkrResult = "none"
    /\ SumcheckIdle
    /\ KzgIdle
    /\ TranscriptIdle
    /\ CallIdle

\* the other prover starts: what it announces is absorbed
GkrForgeStart ==
    /\ pc = "forge"
    /\ \E fg \in GkrForgeries(circuit) :
          /\ gkrTamper' = fg
          /\ gkrProver' = GkrForgerStart(salt, circuit, inputs, fg)
    /\ pc' = "forging"
    /\ UNCHANGED <<salt, circuit, inputs, gkrProof, gkrVerifier, gkrResult>>
    /\ UNCHANGED notGkr

\* one layer of the other prover; a panic ends the run
GkrForgeLayer ==
    /\ pc = "forging"
    /\ gkrProver.layer_idx < GetLayerCount(circuit)
    /\ gkrProver' = GkrForgerLayer(salt, circuit, inputs, gkrProver, gkrTamper)
    /\ IF gkrProver'.panicked
       THEN /\ pc' = "done"
            /\ gkrResult' = "panic"
       ELSE UNCHANGED <<pc, gkrResult>>
    /\ UNCHANGED <<salt, circuit, inputs, gkrProof, gkrTamper, gkrVerifier>>
    /\ UNCHANGED notGkr

\* the other prover sends its proof
GkrForgeFinish ==
    /\ pc = "forging"
    /\ gkrProver.layer_idx = GetLayerCount(circuit)
    /\ gkrProof' = [output_poly |-> GkrAnnouncedOutput(circuit, inputs, gkrTamper),
                    w_polys_evals |-> gkrProver.w_polys_evals,
                    sumcheck_proofs |-> gkrProver.sum_check_proofs]
    /\ pc' = "verify"
    /\ UNCHANGED <<salt, circuit, inputs, gkrProver, gkrTamper, gkrVerifier, gkrResult>>
    /\ UNCHANGED notGkr

FGNext ==
    \/ GkrForgeStart
    \/ GkrForgeLayer
    \/ GkrForgeFinish
    \/ GkrVerifyStart
    \/ GkrVerifyLayer
    \/ GkrVerifyFinish

SpecGKRForged == FGInit /\ [][FGNext]_vars

\* ---------------------------------- GKR: proofs of another prover, claims

\* the challenges squeezed right after absorbing the proof's output polynomial
OutputChallenges ==
    SampleNChallenges(salt, TAppend(TranscriptNew, MlpToBytes(gkrProof.output_poly)),
                      NumberOfVariables(gkrProof.output_poly)).cs

\* the output polynomial sent is not the circuit's
OutputReplaced ==
    gkrTamper.kind = "output"
    /\ gkrProof.output_poly # GetWI(0, EvaluateAtInput(circuit, inputs))

\* C24: verify_proof returns true only if the first sum-check's initial claim is
\* the proof's output polynomial at the challenges squeezed right after
\* absorbing it; a proof whose output polynomial was replaced by another one
\* while its first sum-check claims the true layer sum is rejected.
C24_OutputClaimBound ==
    pc = "done" =>
        /\ gkrResult = "true" =>
              gkrProof.sumcheck_proofs[1].initial_claim_sum
                  = DirectMLE(gkrProof.output_poly, OutputChallenges)
        /\ OutputReplaced => gkrResult # "true"

\* what the code does: every proof made with a replaced output polynomial and
\* the true layer sum as claim is accepted
ReplacedOutputAccepted ==
    (pc = "done" /\ OutputReplaced /\ ~gkrProver.panicked) => gkrResult = "true"

RECURSIVE GkrVerifierAt(_)
\* the verifier's state at the start of layer k of the proof received
GkrVerifierAt(k) ==
    IF k = 0 THEN GkrVerifierStart(salt, gkrProof)
    ELSE GkrVerifierLayer(salt, circuit, inputs, gkrProof, GkrVerifierAt(k - 1)).st

\* alpha u + beta v for the pair sent for layer k and the challenges squeezed at
\* the start of layer k
FoldOfSentEvals(k) ==
    LET alpha == SampleChallenge(salt, GkrVerifierAt(k).t)
        beta == SampleChallenge(salt, alpha.t)
        uv == gkrProof.w_polys_evals[k]
    IN  (alpha.c * uv[1] + beta.c * uv[2]) % FieldP

\* C25: for every layer k > 0, verify_proof returns true only if the initial
\* claim of the layer's sum-check is alpha u + beta v, (u, v) the pair of
\* w_polys_evals used in the oracle check of layer k-1 and alpha, beta the
\* challenges squeezed at the start of layer k.
C25_LayerClaimsChained ==
    (pc = "done" /\ gkrResult = "true") =>
        \A k \in 1 .. (Len(gkrProof.sumcheck_proofs) - 1) :
            gkrProof.sumcheck_proofs[k + 1].initial_claim_sum = FoldOfSentEvals(k)

\* the proofs of generate_proof itself are chained so
HonestLayerClaimsChained ==
    (pc = "done" /\ gkrResult = "true" /\ gkrTamper.kind = "none") =>
        /\ gkrProof.sumcheck_proofs[1].initial_claim_sum
              = DirectMLE(gkrProof.output_poly, OutputChallenges)
        /\ \A k \in 1 .. (Len(gkrProof.sumcheck_proofs) - 1) :
              gkrProof.sumcheck_proofs[k + 1].initial_claim_sum = FoldOfSentEvals(k)

\* ------------------------------------------------ circuit: layer identity

\* the input-bit width of a selector of so many evaluations over so many wires
SelectorWidth(selector, wires) == ILog2(Len(selector) \div Len(wires)) \div 2

\* the sum over (b, c) of add(a, b, c) (W(b) + W(c)) + mul(a, b, c) W(b) W(c),
\* b and c of `width` bits each
LayerSum(add_i, mul_i, w_next, a, width) ==
    LET side == Pow2(width)
        Term(b, c) ==
            LET at == (a * side + b) * side + c + 1
            IN  (add_i[at] * (w_next[b + 1] + w_next[c + 1])
                 + mul_i[at] * w_next[b + 1] * w_next[c + 1]) % FieldP
        RECURSIVE Acc(_)
        Acc(i) == IF i = side * side THEN 0
                  ELSE (Term(i \div side, i % side) + Acc(i + 1)) % FieldP
    IN  Acc(0)

\* evaluate_at_input has returned the wire vectors of a circuit whose gates
\* read wires that exist
CircuitEvaluated ==
    /\ pc = "returned" /\ call.fn = "evaluate_at_input"
    /\ WiresExist(call.layers, Len(call.inputs))
    /\ ~returned.panicked

\* C26: for every circuit whose gates read wires that exist, every input,
\* every layer i and every index a of the wire vector of layer i, W_i(a) is
\* the sum over (b, c) of add_i(a, b, c) (W_{i+1}(b) + W_{i+1}(c))
\* + mul_i(a, b, c) W_{i+1}(b) W_{i+1}(c), the input-bit width of the
\* selectors being the variable count of W_{i+1}.
C26_LayerIdentity ==
    CircuitEvaluated =>
        \A i \in 0 .. Len(call.layers) - 1 :
            LET w_i == GetWI(i, returned.value)
                w_next == GetWI(i + 1, returned.value)
                add_i == GetAddI(call.layers, i)
                mul_i == GetMulI(call.layers, i)
            IN  /\ SelectorWidth(add_i, w_i) = NumberOfVariables(w_next)
                /\ SelectorWidth(mul_i, w_i) = NumberOfVariables(w_next)
                /\ \A a \in 0 .. Len(w_i) - 1 :
                       w_i[a + 1] = LayerSum(add_i, mul_i, w_next, a, NumberOfVariables(w_next))

\* what the code does: the width of the selectors is that of the largest wire
\* index read, the variable count of W_{i+1} at most, and the identity holds
\* over indices of that width
LayerIdentityOverReadWidth ==
    CircuitEvaluated =>
        \A i \in 0 .. Len(call.layers) - 1 :
            LET w_i == GetWI(i, returned.value)
                w_next == GetWI(i + 1, returned.value)
                add_i == GetAddI(call.layers, i)
                mul_i == GetMulI(call.layers, i)
                width == SelectorWidth(add_i, w_i)
            IN  /\ width = SelectorWidth(mul_i, w_i)
                /\ width <= NumberOfVariables(w_next)
                /\ Len(add_i) = Len(w_i) * Pow2(2 * width)
                /\ Len(mul_i) = Len(add_i)
                /\ \A a \in 0 .. Len(w_i) - 1 :
                       w_i[a + 1] = LayerSum(add_i, mul_i, w_next, a, width)

\* ------------------------------------------- polynomials: linear division

\* the point x without its entry i (from 0)
WithoutEntry(x, i) == SubSeq(x, 1, i) \o SubSeq(x, i + 2, Len(x))

\* C27: for a multilinear polynomial of n >= 1 variables, a variable index
\* i < n and a field element r, compute_quotient_remainder(r, i) returns a
\* quotient of 2^(n-1) entries, entry k the difference y1 - y0 of the k-th
\* index pair in ascending order, and the remainder partially_evaluate(i, r),
\* and at every point x, f(x) = (x_i - r) q(x without x_i) + rem(x without x_i).
C27_LinearDivision ==
    (pc = "returned" /\ call.fn = "compute_quotient_remainder") =>
        LET n == NumberOfVariables(call.self)
            i == call.variable_index
            r == call.divisor
            y0 == Restriction(call.self, i, 0)
            y1 == Restriction(call.self, i, 1)
            q == returned.value.quotient
            rem == returned.value.remainder
        IN  /\ ~returned.panicked
            /\ Len(q) = Pow2(n - 1)
            /\ \A k \in 1 .. Len(q) : q[k] = (y1[k] + FieldP - y0[k]) % FieldP
            /\ Len(rem) = Pow2(n - 1)
            /\ \A k \in 1 .. Len(rem) :
                   rem[k] = (y0[k] + r * (y1[k] + FieldP - y0[k])) % FieldP
            /\ \A x \in [1 .. n -> Field] :
                   DirectMLE(call.self, x)
                       = ((x[i + 1] + FieldP - r) * DirectMLE(q, WithoutEntry(x, i))
                          + DirectMLE(rem, WithoutEntry(x, i))) % FieldP

\* the division has returned for the middle variable of three, by x_1 - 2, with
\* a quotient that is neither zero nor constant
C27_Witness ==
    /\ pc = "returned" /\ call.fn = "compute_quotient_remainder"
    /\ NumberOfVariables(call.self) = 3 /\ call.variable_index = 1 /\ call.divisor = 2
    /\ returned.value.quotient[1] # returned.value.quotient[2]
    /\ returned.value.quotient[3] # 0

\* ------------------------------------------- sum-check: the prover's rounds

\* the prover is in or past the loop of generate_round_polys
ProverRunning == pc \notin {"generate"}

\* rounds the prover has run
ProverRound == Len(prover.round_polys)

\* C28: for an n-variable multilinear input generate_round_polys runs exactly n
\* rounds and stops; after round k the running polynomial has n - k variables
\* and is the input with its first k variables fixed to r_1..r_k; each round
\* polynomial satisfies g_k(0) + g_k(1) = g_{k-1}(r_{k-1}), the total sum for
\* k = 1; and what the prover absorbs in round k is what the verifier absorbs
\* in round k: the claim, then the round polynomial, then the squeezed digest.
C28_ProverRoundInvariant ==
    ProverRunning =>
        LET n == NumberOfVariables(f)
            k == ProverRound
            chain == RoundChain(prover.round_polys, k, 1, DirectSum(f), <<>>, FlatBytes(f))
        IN  /\ k <= n
            /\ (pc # "rounds") => k = n
            /\ Len(prover.challenges) = k
            /\ Len(prover.poly) = Pow2(n - k)
            /\ \A i \in 0 .. Pow2(n - k) - 1 :
                   prover.poly[i + 1]
                       = DirectMLE(f, prover.challenges \o HypercubePoint(i, n - k))
            /\ chain.ok
            /\ chain.challenges = [j \in 1 .. k |-> <<prover.challenges[j]>>]
            /\ prover.t = chain.t

\* the prover has run both rounds of a two-variable input whose second round
\* polynomial is not constant, on a challenge that is neither 0 nor 1
C28_Witness ==
    /\ pc = "rounds" /\ NumberOfVariables(f) = 2 /\ ProverRound = 2
    /\ prover.challenges[1] \notin {0, 1}
    /\ prover.round_polys[2][2] # 0
    /\ prover.round_polys[1][2] # 0

\* ------------------------------------------- polynomials: univariate sum

UniAddReturned == pc = "returned" /\ call.fn = "_add"

\* the returned polynomial evaluates to the sum of the operands at every x
UniAddEvaluatesToSum ==
    \A x \in Field :
        DirectUniAt(returned.value, x)
            = (DirectUniAt(call.self, x) + DirectUniAt(call.p2, x)) % FieldP

\* C29: for all dense polynomials p and q, of equal or different lengths, p + q
\* has max(len p, len q) coefficients and evaluates to p(x) + q(x) at every x;
\* [2, 1] + [3, 0, 1] = [5, 1, 1].
C29_UnivariateAddition ==
    UniAddReturned =>
        /\ ~returned.panicked
        /\ Len(returned.value) = Max(Len(call.self), Len(call.p2))
        /\ UniAddEvaluatesToSum
        /\ (call.self = <<2, 1>> /\ call.p2 = <<3, 0, 1>>)
               => returned.value = <<5 % FieldP, 1, 1>>

\* what holds of the code: the sum has the length of the shorter operand, its
\* coefficients are the sums of the operands', and it is the sum of the two
\* polynomials when they are equally long
UniAddOverShorter ==
    UniAddReturned =>
        /\ ~returned.panicked
        /\ Len(returned.value) = Min(Len(call.self), Len(call.p2))
        /\ \A i \in 1 .. Len(returned.value) :
               returned.value[i] = (call.self[i] + call.p2[i]) % FieldP
        /\ Len(call.self) = Len(call.p2) => UniAddEvaluatesToSum

\* the sum of 2 + x and 3 + x^2 has been returned
UniAddOfTheExample ==
    UniAddReturned /\ call.self = <<2, 1>> /\ call.p2 = <<3, 0, 1>>

\* --------------------------------------- transcript: the split of the bytes

\* Three instances absorb the same bytes, given as a list of pieces: the first
\* by one append per piece, the second by one append_n of the pieces, the third
\* by one append of the pieces joined; each then squeezes.

SplitPieces ==
    UNION {[1 .. n -> {[kind |-> "append", data |-> d, n |-> 0] : d \in AppendData}] :
              n \in 1 .. MaxOps}

RECURSIVE PiecesJoined(_)
PiecesJoined(ops) == IF ops = <<>> THEN <<>> ELSE Head(ops).data \o PiecesJoined(Tail(ops))

\* the calls instance i absorbs the bytes by
Absorbs(i) == IF i = 1 THEN Len(operations) ELSE 1

TSInit ==
    /\ salt \in Salts
    /\ pc = "split"
    /\ operations \in SplitPieces
    /\ transcripts = <<NewTranscript, NewTranscript, NewTranscript>>
    /\ SumcheckIdle
    /\ KzgIdle
    /\ GkrIdle
    /\ CallIdle

\* append of the next piece (instance 1) or of the joined pieces (instance 3)
TsAppendCall(i) ==
    /\ pc = "split"
    /\ Done(transcripts[i]) < Absorbs(i)
    /\ LET data == IF i = 1 THEN operations[Done(transcripts[i]) + 1].data
                   ELSE PiecesJoined(operations)
       IN  transcripts' = [transcripts EXCEPT ![i] =
               Performed(@, TAppend(HasherOf(transcripts, i), data), <<>>)]
    /\ UNCHANGED <<salt, pc, operations, notTranscript>>

\* append_n of the pieces (instance 2)
TsAppendNCall ==
    /\ pc = "split"
    /\ Done(transcripts[2]) < Absorbs(2)
    /\ transcripts' = [transcripts EXCEPT ![2] =
           Performed(@, TAppendN(HasherOf(transcripts, 2),
                                 [k \in 1 .. Len(operations) |-> operations[k].data]), <<>>)]
    /\ UNCHANGED <<salt, pc, operations, notTranscript>>

\* sample_challenge, once the bytes are absorbed
TsSampleChallengeCall(i) ==
    /\ pc = "split"
    /\ Done(transcripts[i]) >= Absorbs(i)
    /\ Done(transcripts[i]) < Absorbs(i) + MaxSqueeze
    /\ LET r == SampleChallenge(salt, HasherOf(transcripts, i))
       IN transcripts' = [transcripts EXCEPT ![i] = Performed(@, r.t, <<r.c>>)]
    /\ UNCHANGED <<salt, pc, operations, notTranscript>>

TSNext ==
    \/ \E i \in {1, 3} : TsAppendCall(i)
    \/ TsAppendNCall
    \/ \E i \in 1 .. 3 : TsSampleChallengeCall(i)

SpecTranscriptSplit == TSInit /\ [][TSNext]_vars

\* instance i has absorbed the bytes and squeezed s times
Squeezed(i, s) == Done(transcripts[i]) >= Absorbs(i) + s

\* C30: the transcript depends only on the concatenation of the absorbed bytes:
\* append of each piece in turn, append_n of the pieces and one append of the
\* pieces joined leave the transcript in the same state and give the same later
\* challenges; the split into calls is not recorded.
C30_SplitNotRecorded ==
    pc = "split" =>
        \A i, j \in 1 .. 3 : \A s \in 0 .. MaxSqueeze :
            (Squeezed(i, s) /\ Squeezed(j, s)) =>
                /\ transcripts[i].after[Absorbs(i) + s] = transcripts[j].after[Absorbs(j) + s]
                /\ transcripts[i].challenges[Absorbs(i) + s]
                       = transcripts[j].challenges[Absorbs(j) + s]

\* two non-empty pieces have been absorbed in the three ways and every instance
\* has squeezed to the end, the challenges differing from one squeeze to the next
C30_Witness ==
    /\ pc = "split"
    /\ Len(operations) = 2 /\ operations[1].data # <<>> /\ operations[2].data # <<>>
    /\ \A i \in 1 .. 3 : Squeezed(i, MaxSqueeze)
    /\ transcripts[2].challenges[2] # transcripts[2].challenges[3]

====
